---- MODULE Spec2Model ----
(***************************************************************************)
(* CliniMatch backend: the matching and translation pipeline of            *)
(* services/trial_matching_service.py together with the translation        *)
(* service it calls (services/gemini_translation_service.py).              *)
(*                                                                         *)
(* Spec      one find_matching_trials request, from the call to the        *)
(*           returned MatchingResult or the raised TrialMatchingError.     *)
(* PoolSpec  one _process_trials_with_ai batch on its own, with enough     *)
(*           trials to saturate the thread pool.                           *)
(***************************************************************************)
EXTENDS Naturals, Integers, Sequences, FiniteSets, TLC

(* ------------------------------ bounds -------------------------------- *)

\* Largest number of raw trials the trial source returns in Spec.
MaxFound == 2

\* Largest batch for which the order of completion of the translation tasks
\* is recorded.
MaxOrdered == 3

\* Largest number of trials handed to _process_trials_with_ai in PoolSpec.
MaxTrials == 6

(* ------------------------- program constants -------------------------- *)

\* TrialMatchingService.__init__: self.max_translation_workers = 5
max_translation_workers == 5

\* _filter_trials: nearby_trials[:20], recruiting_trials[:30],
\* active_trials[:15], "if len(filtered_trials) < 10", remaining_trials[:15]
NearbyCap == 20
RecruitingCap == 30
ActiveCap == 15
BackfillThreshold == 10
BackfillCap == 15

(* ------------------------------ helpers ------------------------------- *)

\* Python's seq[:n]
Take(s, n) == IF Len(s) <= n THEN s ELSE SubSeq(s, 1, n)

\* Python's "x in list"
InSeq(x, s) == \E k \in 1..Len(s) : s[k] = x

\* str.lower() on the status texts the model uses.
Lower(s) ==
    CASE s = "Recruiting" -> "recruiting"
      [] s = "RECRUITING" -> "recruiting"
      [] s = "Not yet recruiting" -> "not yet recruiting"
      [] s = "Active, not recruiting" -> "active, not recruiting"
      [] s = "Enrolling by invitation" -> "enrolling by invitation"
      [] s = "Completed" -> "completed"
      [] s = "COMPLETED" -> "completed"
      [] s = "Terminated" -> "terminated"
      [] s = "Withdrawn" -> "withdrawn"
      [] s = "Suspended" -> "suspended"
      [] s = "Unknown status" -> "unknown status"
      [] s = "Diabetes" -> "diabetes"
      [] s = " Diabetes " -> " diabetes "
      [] s = "Asthma" -> "asthma"
      [] s = "Boston" -> "boston"
      [] s = " BOSTON " -> " boston "
      [] s = "Austin" -> "austin"
      [] s = "MA" -> "ma"
      [] s = "TX" -> "tx"
      [] s = "CA" -> "ca"
      [] s = "United States" -> "united states"
      [] s = "UNITED STATES" -> "united states"
      [] OTHER -> s

\* str.upper() on the state abbreviations the model uses.
Upper(s) ==
    CASE s = "ca" -> "CA"
      [] s = "tx" -> "TX"
      [] s = "ny" -> "NY"
      [] s = "wa" -> "WA"
      [] s = "ga" -> "GA"
      [] s = "nm" -> "NM"
      [] s = "sc" -> "SC"
      [] OTHER -> s

\* str.strip() on the texts the model uses.
Strip(s) ==
    CASE s = " diabetes " -> "diabetes"
      [] s = " Diabetes " -> "Diabetes"
      [] s = " boston " -> "boston"
      [] s = " BOSTON " -> "BOSTON"
      [] s = " " -> ""
      [] OTHER -> s

\* Python's order of the normalized condition texts ("asthma" < "diabetes").
StrRank(s) ==
    CASE s = "asthma" -> 1
      [] s = "diabetes" -> 2
      [] OTHER -> 3

\* Variant: the list is left in the order given.
sorted_unsorted(s) == s

\* sorted(list of str): insertion of each element in turn, stable.
RECURSIVE sorted(_)
sorted(s) ==
    IF s = <<>> THEN <<>>
    ELSE LET rest == sorted(SubSeq(s, 1, Len(s) - 1))
             x == s[Len(s)]
             k == Cardinality({j \in 1..Len(rest) : StrRank(rest[j]) <= StrRank(x)})
         IN  SubSeq(rest, 1, k) \o <<x>> \o SubSeq(rest, k + 1, Len(rest))

(* ------------------------------ the data ------------------------------ *)

\* A RawTrialData record, reduced to the fields the pipeline branches on:
\* the identifier, the status, the states of its locations, and whether the
\* eligibility criteria / description exceed the fallback's length thresholds
\* (len(criteria) > 150, len(description) > 200).
RawTrialData(id, st, locs, clong, dlong) ==
    [nct_id |-> id, status |-> st, states |-> locs,
     criteria_long |-> clong, description_long |-> dlong]

\* The kinds of trial the source returns in Spec.
TrialKinds ==
    { [status |-> "Recruiting", states |-> <<"CA">>, criteria_long |-> FALSE],
      [status |-> "Recruiting", states |-> <<"TX">>, criteria_long |-> TRUE],
      [status |-> "Completed",  states |-> <<"CA">>, criteria_long |-> FALSE] }

\* Lists of n trials with identifiers 1..n, each of one of the kinds.
TrialLists(n) ==
    { [i \in 1..n |-> RawTrialData(i, k[i].status, k[i].states,
                                   k[i].criteria_long, FALSE)] :
        k \in [1..n -> TrialKinds] }

\* The fixed list of n trials used to load the pool in PoolSpec.
PoolTrials(n) ==
    [i \in 1..n |-> RawTrialData(i, "Recruiting", <<"CA">>, (i % 2 = 0), (i % 3 = 0))]

(* What one call of the language model (model.generate_content) does:      *)
(*   ok          well-formed JSON with the four required fields            *)
(*   ok_marker   well-formed JSON whose timeCommitment text contains       *)
(*               "Time commitment information not available"               *)
(*   ok_null     well-formed JSON with the four required fields, the       *)
(*               value of eligibilitySimplified being null                 *)
(*   empty       a response with no text                                   *)
(*   badjson     text that is not JSON                                     *)
(*   missing     JSON lacking a required field                             *)
(*   raise       generate_content raises                                   *)
(*   svc_raise   an injected translation service whose                     *)
(*               translate_with_fallback itself raises                     *)
(*   hang        generate_content never returns                            *)
Responses ==
    {"ok", "ok_marker", "ok_null", "empty", "badjson", "missing", "raise",
     "svc_raise", "hang"}

\* The responses translate_trial_info accepts: JSON with the required fields.
WellFormed == {"ok", "ok_marker", "ok_null"}

Failing == {"empty", "badjson", "missing", "raise", "svc_raise"}

\* One response of each kind the pipeline tells apart ("empty", "badjson"
\* and "missing" are all rejected by translate_trial_info in the same way).
PipelineResponses == Responses \ {"empty", "badjson"}

\* Python's None, and "the call raised".
None == [none |-> TRUE]
Raise == [raised |-> TRUE]

(* --------------------- gemini_translation_service --------------------- *)

\* translate_trial_info: the TrialTranslation parsed from the response, or None.
translate_trial_info(r) ==
    CASE r = "ok" ->
           [simplified_description |-> "ai_description",
            eligibility_simplified |-> "ai_eligibility",
            time_commitment |-> "ai_time",
            key_benefits |-> "ai_benefits"]
      [] r = "ok_marker" ->
           [simplified_description |-> "ai_description",
            eligibility_simplified |-> "ai_eligibility",
            time_commitment |-> "ai_time_not_available",
            key_benefits |-> "ai_benefits"]
      [] r = "ok_null" ->
           [simplified_description |-> "ai_description",
            eligibility_simplified |-> "null",
            time_commitment |-> "ai_time",
            key_benefits |-> "ai_benefits"]
      [] OTHER -> None

\* create_fallback_translation: the conditional expressions bind looser than
\* the f-strings, so short texts are passed through unchanged.
create_fallback_translation(trial) ==
    [simplified_description |->
        IF trial.description_long THEN "titled_description_prefix" ELSE "description",
     eligibility_simplified |->
        IF trial.criteria_long THEN "review_criteria_prefix" ELSE "criteria",
     time_commitment |-> "fallback_time",
     key_benefits |-> "fallback_benefits"]

\* translate_with_fallback
translate_with_fallback(trial, r) ==
    IF r = "svc_raise" THEN Raise
    ELSE IF translate_trial_info(r) # None THEN translate_trial_info(r)
    ELSE create_fallback_translation(trial)

(* ----------------------- trial_matching_service ----------------------- *)

\* "Please review the detailed eligibility criteria" in text
ContainsReviewMarker(text) == text \in {"review_criteria_prefix"}

\* "Time commitment information not available" in text
ContainsTimeMarker(text) == text \in {"fallback_time", "ai_time_not_available"}

\* TrialMatch(...) built from a raw trial and a translation.
TrialMatch(trial, tr) ==
    [nct_id |-> trial.nct_id, status |-> trial.status,
     simplified_description |-> tr.simplified_description,
     eligibility_simplified |-> tr.eligibility_simplified,
     time_commitment |-> tr.time_commitment,
     key_benefits |-> tr.key_benefits]

\* _create_fallback_match
_create_fallback_match(trial) == TrialMatch(trial, create_fallback_translation(trial))

\* The marker test raises TypeError on a field that is not text:
\* "'...' in None"; the second operand of "or" is evaluated only when the
\* first is false.
MarkerTestRaises(tr) ==
    \/ tr.eligibility_simplified = "null"
    \/ ~ContainsReviewMarker(tr.eligibility_simplified) /\ tr.time_commitment = "null"

\* Variant: only the eligibility marker is looked for.
translation_success_eligibility_only(tr) ==
    ~ContainsReviewMarker(tr.eligibility_simplified)

\* The translation_success flag of _process_single_trial.
translation_success(tr) ==
    ~(ContainsReviewMarker(tr.eligibility_simplified)
      \/ ContainsTimeMarker(tr.time_commitment))

\* _process_single_trial: (TrialMatch, translation_success); any exception
\* inside the try block ends in (_create_fallback_match(raw_trial), False).
_process_single_trial(trial, r) ==
    IF \/ translate_with_fallback(trial, r) = Raise
       \/ MarkerTestRaises(translate_with_fallback(trial, r))
    THEN [match |-> _create_fallback_match(trial), success |-> FALSE]
    ELSE [match |-> TrialMatch(trial, translate_with_fallback(trial, r)),
          success |-> translation_success(translate_with_fallback(trial, r))]

(* --------------------------- _filter_trials --------------------------- *)

\* Variant: no status is filtered out.
Excluded_none(trial) == FALSE

\* trial.status.lower() in ['completed', 'terminated', 'withdrawn']
Excluded(trial) == Lower(trial.status) \in {"completed", "terminated", "withdrawn"}

\* Variant: the location loop without its last cluster.
Nearby_three_clusters(user_state, state) ==
    \/ user_state \in {"NY", "NJ", "CT"} /\ state \in {"NY", "NJ", "CT", "PA", "MA"}
    \/ user_state \in {"CA", "NV", "OR"} /\ state \in {"CA", "NV", "OR", "WA", "AZ"}
    \/ user_state \in {"TX", "LA", "OK"} /\ state \in {"TX", "LA", "OK", "AR", "NM"}

\* The four regional clusters of the location loop.
Nearby(user_state, state) ==
    \/ user_state \in {"NY", "NJ", "CT"} /\ state \in {"NY", "NJ", "CT", "PA", "MA"}
    \/ user_state \in {"CA", "NV", "OR"} /\ state \in {"CA", "NV", "OR", "WA", "AZ"}
    \/ user_state \in {"TX", "LA", "OK"} /\ state \in {"TX", "LA", "OK", "AR", "NM"}
    \/ user_state \in {"FL", "GA", "AL"} /\ state \in {"FL", "GA", "AL", "SC", "NC"}

has_local_location(trial, user_state) ==
    \E k \in 1..Len(trial.states) :
        trial.states[k] # "" /\ Upper(trial.states[k]) = user_state

\* The location loop stops at the first local location: has_nearby_location
\* is set by a cluster location that comes before any local one.
has_nearby_location(trial, user_state) ==
    \E k \in 1..Len(trial.states) :
        /\ trial.states[k] # ""
        /\ Upper(trial.states[k]) # user_state
        /\ Nearby(user_state, Upper(trial.states[k]))
        /\ \A j \in 1..(k - 1) :
              ~(trial.states[j] # "" /\ Upper(trial.states[j]) = user_state)

\* Variant: 'enrolling by invitation' counts as recruiting.
Bucket_invitation_recruiting(trial, user_state) ==
    IF Excluded(trial) THEN "excluded"
    ELSE IF has_local_location(trial, user_state) THEN "local"
    ELSE IF has_nearby_location(trial, user_state) THEN "nearby"
    ELSE IF Lower(trial.status) \in {"recruiting", "not yet recruiting",
                                     "enrolling by invitation"} THEN "recruiting"
    ELSE IF Lower(trial.status) \in {"active, not recruiting"} THEN "active"
    ELSE "none"

\* The list a non-finished trial is appended to ("none": no list).
Bucket(trial, user_state) ==
    IF Excluded(trial) THEN "excluded"
    ELSE IF has_local_location(trial, user_state) THEN "local"
    ELSE IF has_nearby_location(trial, user_state) THEN "nearby"
    ELSE IF Lower(trial.status) \in {"recruiting", "not yet recruiting"} THEN "recruiting"
    ELSE IF Lower(trial.status) \in {"active, not recruiting", "enrolling by invitation"}
         THEN "active"
    ELSE "none"

BucketList(raw_trials, user_state, b) ==
    SelectSeq(raw_trials, LAMBDA t : Bucket(t, user_state) = b)

\* Variant: the active bucket is taken whole.
Bucketed_active_uncapped(raw_trials, user_state) ==
    BucketList(raw_trials, user_state, "local")
    \o Take(BucketList(raw_trials, user_state, "nearby"), NearbyCap)
    \o Take(BucketList(raw_trials, user_state, "recruiting"), RecruitingCap)
    \o BucketList(raw_trials, user_state, "active")

\* Variant: the local bucket is capped like the nearby one.
Bucketed_local_capped(raw_trials, user_state) ==
    Take(BucketList(raw_trials, user_state, "local"), NearbyCap)
    \o Take(BucketList(raw_trials, user_state, "nearby"), NearbyCap)
    \o Take(BucketList(raw_trials, user_state, "recruiting"), RecruitingCap)
    \o Take(BucketList(raw_trials, user_state, "active"), ActiveCap)

\* filtered_trials before the backfill step
Bucketed(raw_trials, user_state) ==
    BucketList(raw_trials, user_state, "local")
    \o Take(BucketList(raw_trials, user_state, "nearby"), NearbyCap)
    \o Take(BucketList(raw_trials, user_state, "recruiting"), RecruitingCap)
    \o Take(BucketList(raw_trials, user_state, "active"), ActiveCap)

\* Variant: the backfill does not look at what is already included.
Remaining_all_open(raw_trials, filtered) ==
    SelectSeq(raw_trials, LAMBDA t : ~Excluded(t))

\* Variant: the backfill takes trials of any status.
Remaining_any_status(raw_trials, filtered) ==
    SelectSeq(raw_trials, LAMBDA t : ~InSeq(t, filtered))

\* remaining_trials of the backfill step
Remaining(raw_trials, filtered) ==
    SelectSeq(raw_trials, LAMBDA t : ~InSeq(t, filtered) /\ ~Excluded(t))

\* Variant: no backfill step.
_filter_trials_no_backfill(raw_trials, profile_state) ==
    Bucketed(raw_trials, IF profile_state # "" THEN Upper(profile_state) ELSE "")

_filter_trials(raw_trials, profile_state) ==
    LET user_state == IF profile_state # "" THEN Upper(profile_state) ELSE ""
        filtered == Bucketed(raw_trials, user_state)
    IN  IF Len(filtered) < BackfillThreshold
        THEN filtered \o Take(Remaining(raw_trials, filtered), BackfillCap)
        ELSE filtered

(* ------------------------------ the state ----------------------------- *)

VARIABLES
    user_profile,           \* the request's profile: [state |-> ...]
    cache_get,              \* what cache_service.get_cached_trials would do:
                            \*   "hit" | "miss" | "raise"
    cache_put,              \* what cache_service.cache_trials would do: "ok" | "raise"
    source,                 \* what clinical_trials_service.search_trials does
    gemini,                 \* nct_id -> the responses the language model may give
    pc,                     \* position of find_matching_trials
    raw_trials,             \* find_matching_trials: raw_trials
    filtered_trials,        \* find_matching_trials: filtered_trials
    result,                 \* the MatchingResult returned, or None
    error,                  \* the exception raised, or None
    calls,                  \* number of calls made to each collaborator / step
    ppc,                    \* position of _process_trials_with_ai
    pool_in,                \* _process_trials_with_ai: raw_trials
    task,                   \* per submitted trial: queued, running, finished, collected
    resp,                   \* per started task: the response its model call gets
    fut,                    \* per finished task: the future's result
    initial_finished,       \* as_completed: futures already finished on entry
    finished_futures,       \* as_completed: waiter.finished_futures
    completion_order,       \* the tasks in the order their futures were set
                            \* (kept for batches of up to MaxOrdered trials)
    processed_matches,      \* _process_trials_with_ai: processed_matches
    successful_translations,\* _process_trials_with_ai: successful_translations
    pool_ret                \* what _process_trials_with_ai returned, or None

pipeline_vars == <<user_profile, cache_get, cache_put, source, gemini,
                   pc, raw_trials, filtered_trials, result, error, calls,
                   ppc, pool_in, task, resp, fut, initial_finished, finished_futures,
                   completion_order, processed_matches, successful_translations,
                   pool_ret>>

env_vars == <<user_profile, cache_get, cache_put, source, gemini>>
find_vars == <<pc, raw_trials, filtered_trials, result, error>>
pool_vars == <<ppc, pool_in, task, resp, fut, initial_finished, finished_futures,
               completion_order, processed_matches, successful_translations, pool_ret>>

\* The components that are also modelled on their own (cache addressing).
VARIABLES
    key_profiles,           \* the profiles generate_search_key was applied to
    search_keys,            \* the key generate_search_key returned for each
    trials_cache,           \* table trials_cache: the search_key of each row
    cache_lookup,           \* what _get_cached_results returned: "hit" | "miss"
    cache_stored,           \* how _cache_results ended: "returned" | "raised"
    cache_raised            \* the cache_service methods that raised DatabaseError

key_vars == <<key_profiles, search_keys, trials_cache, cache_lookup, cache_stored,
              cache_raised>>

\* (the filter on its own)
VARIABLES
    filter_raw,             \* _filter_trials: raw_trials
    filter_state,           \* _filter_trials: user_profile.location.state
    filter_done,            \* _filter_trials has returned
    filter_buckets,         \* local_trials, nearby_trials, recruiting_trials, active_trials
    filter_out              \* what _filter_trials returned

filter_vars == <<filter_raw, filter_state, filter_done, filter_buckets, filter_out>>

\* (GET /api/trial/<nct_id> and get_trial_by_id)
VARIABLES
    trial_id,               \* the nct_id of the URL
    trial_answer,           \* what the registry answers to the query by id
    trial_gemini,           \* what the language model does for the trial
    trial_pc,               \* "request" | "service" | "translate" | "respond" | "done"
    trial_result,           \* what get_trial_by_id returned or raised
    trial_calls,            \* calls made: get_trial_by_nct_id, translate
    trial_http              \* the HTTP response of the route

trial_vars == <<trial_id, trial_answer, trial_gemini, trial_pc, trial_result,
                trial_calls, trial_http>>

\* (one ClinicalTrialsService._make_request call)
VARIABLES
    registry,               \* what the registry does on the 1st, 2nd, 3rd request
    attempt,                \* _make_request: attempt
    request_pc,             \* "idle" | "call" | "loop" | "rate_sleep" | "stamp" | "get" |
                            \* "retry_sleep" | "returned" | "raised"
    gets,                   \* number of session.get calls made
    sleeps,                 \* the time.sleep calls of the calling thread: [by, seconds]
    outcome                 \* the body returned or the exception raised

request_vars == <<registry, attempt, request_pc, gets, sleeps, outcome>>

\* (_handle_rate_limiting under concurrent request threads)
VARIABLES
    clock,                  \* time.time(), in seconds
    last_request_time,      \* self.last_request_time
    rate_pc,                \* per thread: "ready" | "sleeping" | "stamp"
    wake_at,                \* per sleeping thread: when time.sleep returns
    requests_left,          \* per thread: requests it has still to make
    sent                    \* the outbound requests: [thread, at], in order

rate_vars == <<clock, last_request_time, rate_pc, wake_at, requests_left, sent>>

\* (one ClinicalTrialsService.search_trials call)
VARIABLES
    search_response,        \* what _make_request returns or raises
    search_age,             \* search_trials: age (0 when no age is given)
    search_pc,              \* "idle" | "call" | "loop" | "returned" | "raised"
    study_index,            \* position of the for loop in studies
    search_out,             \* search_trials: trials
    search_exc              \* the exception search_trials raised

search_vars == <<search_response, search_age, search_pc, study_index, search_out,
                 search_exc>>

\* (POST /api/match)
VARIABLES
    match_request,          \* the request: content type and JSON body
    match_service,          \* what find_matching_trials does when called
    match_pc,               \* "idle" | "request" | "service" | "done"
    match_validated,        \* validated_data of schema.load
    match_calls,            \* number of find_matching_trials calls made
    match_http              \* the HTTP response of the route

match_vars == <<match_request, match_service, match_pc, match_validated, match_calls,
                match_http>>

\* (translate_with_fallback on the texts of one trial)
VARIABLES
    text_title,             \* title
    text_criteria,          \* criteria
    text_description,       \* description
    text_response,          \* what model.generate_content does
    text_pc,                \* "idle" | "call" | "translated" | "returned"
    text_info,              \* what translate_trial_info returned
    text_out                \* what translate_with_fallback returned

text_vars == <<text_title, text_criteria, text_description, text_response, text_pc,
               text_info, text_out>>

\* (CacheService on the table trials_cache)
VARIABLES
    cache_rows,             \* the rows of the table, in the order a select returns them
    cache_now,              \* datetime.now(timezone.utc), in hours
    cache_unique,           \* whether the table rejects a second row with a search_key
    cache_call,             \* per caller: the call it is in the middle of, with the
                            \* time it read and the rows its select was answered with
    cache_ret,              \* per caller: what its last cache_trials / clear_cache call did
    cache_written,          \* per search_key: the last cache_trials call that returned True
                            \* (none once clear_cache has run)
    cache_got,              \* the last get_cached_trials call whose value is settled:
                            \* the rows it saw, the time it read and what it returns
    cache_calls             \* number of calls of the service started

store_vars == <<cache_rows, cache_now, cache_unique, cache_call, cache_ret,
                cache_written, cache_got, cache_calls>>

\* (the try block of find_matching_trials, step by step)
VARIABLES
    guard_faults,           \* per step: the exception class it raises, or "none"
    guard_found,            \* whether the source has trials for the profile
    guard_pc,               \* the step to run next | "returned" | "raised"
    guard_exc               \* the exception that left find_matching_trials

guard_vars == <<guard_faults, guard_found, guard_pc, guard_exc>>

component_vars == <<key_vars, filter_vars, trial_vars, request_vars, rate_vars,
                    search_vars, match_vars, text_vars, store_vars, guard_vars>>

\* What the actions of each component leave alone.
outside_key == <<pipeline_vars, filter_vars, trial_vars, request_vars, rate_vars,
    search_vars, match_vars, text_vars,
    store_vars, guard_vars>>
outside_filter == <<pipeline_vars, key_vars, trial_vars, request_vars, rate_vars,
    search_vars, match_vars, text_vars,
    store_vars, guard_vars>>
outside_trial == <<pipeline_vars, key_vars, filter_vars, request_vars, rate_vars,
    search_vars, match_vars, text_vars,
    store_vars, guard_vars>>
outside_request == <<pipeline_vars, key_vars, filter_vars, trial_vars, rate_vars,
    search_vars, match_vars, text_vars,
    store_vars, guard_vars>>
outside_rate == <<pipeline_vars, key_vars, filter_vars, trial_vars, request_vars,
    search_vars, match_vars, text_vars,
    store_vars, guard_vars>>

outside_search == <<pipeline_vars, key_vars, filter_vars, trial_vars, request_vars,
    rate_vars, match_vars, text_vars,
    store_vars, guard_vars>>
outside_match == <<pipeline_vars, key_vars, filter_vars, trial_vars, request_vars,
    rate_vars, search_vars, text_vars,
    store_vars, guard_vars>>
outside_text == <<pipeline_vars, key_vars, filter_vars, trial_vars, request_vars,
    rate_vars, search_vars, match_vars,
    store_vars, guard_vars>>

outside_store == <<pipeline_vars, key_vars, filter_vars, trial_vars, request_vars,
    rate_vars, search_vars, match_vars, text_vars, guard_vars>>
outside_guard == <<pipeline_vars, key_vars, filter_vars, trial_vars, request_vars,
    rate_vars, search_vars, match_vars, text_vars, store_vars>>

vars == <<pipeline_vars, component_vars>>

KeyIdle ==
    /\ key_profiles = <<>>
    /\ search_keys = <<>>
    /\ trials_cache = {}
    /\ cache_lookup = "none"
    /\ cache_stored = "none"
    /\ cache_raised = {}

\* The four lists of _filter_trials before its loop.
EmptyBuckets == [local |-> <<>>, nearby |-> <<>>, recruiting |-> <<>>, active |-> <<>>]

FilterIdle ==
    /\ filter_raw = <<>>
    /\ filter_state = ""
    /\ filter_done = FALSE
    /\ filter_buckets = EmptyBuckets
    /\ filter_out = <<>>

TrialIdle ==
    /\ trial_id = ""
    /\ trial_answer = None
    /\ trial_gemini = "ok"
    /\ trial_pc = "idle"
    /\ trial_result = None
    /\ trial_calls = [get_trial_by_nct_id |-> 0, translate |-> 0]
    /\ trial_http = None

RequestIdle ==
    /\ registry = <<>>
    /\ attempt = 0
    /\ request_pc = "idle"
    /\ gets = 0
    /\ sleeps = <<>>
    /\ outcome = None

RateIdle ==
    /\ clock = 0
    /\ last_request_time = 0
    /\ rate_pc = <<>>
    /\ wake_at = <<>>
    /\ requests_left = <<>>
    /\ sent = <<>>

SearchIdle ==
    /\ search_response = None
    /\ search_age = 0
    /\ search_pc = "idle"
    /\ study_index = 0
    /\ search_out = <<>>
    /\ search_exc = None

MatchIdle ==
    /\ match_request = None
    /\ match_service = "ok"
    /\ match_pc = "idle"
    /\ match_validated = None
    /\ match_calls = 0
    /\ match_http = None

TextIdle ==
    /\ text_title = <<>>
    /\ text_criteria = <<>>
    /\ text_description = <<>>
    /\ text_response = None
    /\ text_pc = "idle"
    /\ text_info = None
    /\ text_out = None

StoreIdle ==
    /\ cache_rows = <<>>
    /\ cache_now = 0
    /\ cache_unique = FALSE
    /\ cache_call = <<>>
    /\ cache_ret = <<>>
    /\ cache_written = <<>>
    /\ cache_got = None
    /\ cache_calls = 0

GuardIdle ==
    /\ guard_faults = <<>>
    /\ guard_found = FALSE
    /\ guard_pc = "idle"
    /\ guard_exc = None

\* search_trials, POST /api/match, translate_with_fallback and the cache
\* service are not running.
LaterIdle == SearchIdle /\ MatchIdle /\ TextIdle /\ StoreIdle /\ GuardIdle

ComponentsIdle ==
    KeyIdle /\ FilterIdle /\ TrialIdle /\ RequestIdle /\ RateIdle /\ LaterIdle

NoCalls ==
    [get_cached_trials |-> 0, cache_trials |-> 0, search_trials |-> 0,
     filter_trials |-> 0, translate |-> 0]

\* The entry the cache holds when cache_get = "hit".
CachedEntry ==
    [matches |-> << [nct_id |-> 1, status |-> "Recruiting",
                     simplified_description |-> "ai_description",
                     eligibility_simplified |-> "ai_eligibility",
                     time_commitment |-> "ai_time",
                     key_benefits |-> "ai_benefits"] >>,
     total_found |-> 1,
     ai_translation_success_rate |-> [num |-> 1, den |-> 1]]

\* cache_service.get_cached_trials(search_params) as the collaborator answers it.
get_cached_trials(behaviour) ==
    CASE behaviour = "hit" -> CachedEntry
      [] behaviour = "miss" -> None
      [] OTHER -> Raise

\* TrialMatchingError(message, error_type = "MATCHING_ERROR")
TrialMatchingError(error_type) ==
    [exception |-> "TrialMatchingError", error_type |-> error_type]

\* MatchingResult(matches, total_found, ..., cached, ai_translation_success_rate)
MatchingResult(matches, total_found, cached, rate) ==
    [matches |-> matches, total_found |-> total_found, cached |-> cached,
     ai_translation_success_rate |-> rate]

\* A float quotient kept exact; 0.0 is 0/1.
Zero == [num |-> 0, den |-> 1]

(* ---------------------- _process_trials_with_ai ----------------------- *)

Tasks == DOMAIN task

Running == {i \in Tasks : task[i] = "running"}

\* Variant: a thread per submitted work item.
WorkerAvailable_unbounded == TRUE

\* ThreadPoolExecutor(max_workers=self.max_translation_workers): a queued
\* work item is taken only by one of at most max_workers threads.
WorkerAvailable == Cardinality(Running) < max_translation_workers

\* successful_translations / len(raw_trials) if raw_trials else 0.0
ai_success_rate(successful, n) ==
    IF n > 0 THEN [num |-> successful, den |-> n] ELSE Zero

\* Variant: the match is appended only inside "if translation_success".
CollectResult_drop_unsuccessful(i) ==
    [matches |-> IF fut[i].success THEN Append(processed_matches, fut[i].match)
                 ELSE processed_matches,
     successful |-> IF fut[i].success THEN successful_translations + 1
                    ELSE successful_translations]

\* Variant: the counter is incremented for every collected future.
CollectResult_count_all(i) ==
    [matches |-> Append(processed_matches, fut[i].match),
     successful |-> successful_translations + 1]

\* The body of the "for future in as_completed(...)" loop for task i:
\* (processed_matches, successful_translations) after it.
CollectResult(i) ==
    [matches |-> Append(processed_matches, fut[i].match),
     successful |-> IF fut[i].success THEN successful_translations + 1
                    ELSE successful_translations]

\* future_to_trial = {executor.submit(...): trial for trial in raw_trials}
SubmitAll ==
    /\ ppc = "call"
    /\ ppc' = "submitted"
    /\ task' = [i \in 1..Len(pool_in) |-> "queued"]
    /\ resp' = [i \in 1..Len(pool_in) |-> "unset"]
    /\ fut' = [i \in 1..Len(pool_in) |-> None]
    /\ processed_matches' = <<>>
    /\ successful_translations' = 0
    /\ UNCHANGED <<env_vars, component_vars, find_vars, completion_order, calls, pool_in, initial_finished,
                   finished_futures, pool_ret>>

\* A pool thread takes the oldest queued work item and enters
\* _process_single_trial, which calls translate_with_fallback.
StartTask(i) ==
    /\ ppc \in {"submitted", "collecting"}
    /\ task[i] = "queued"
    /\ \A j \in Tasks : j < i => task[j] # "queued"
    /\ WorkerAvailable
    /\ \E r \in gemini[pool_in[i].nct_id] : resp' = [resp EXCEPT ![i] = r]
    /\ task' = [task EXCEPT ![i] = "running"]
    /\ calls' = [calls EXCEPT !.translate = @ + 1]
    /\ UNCHANGED <<env_vars, component_vars, find_vars, completion_order, ppc, pool_in, fut, initial_finished,
                   finished_futures, processed_matches, successful_translations,
                   pool_ret>>

\* The model call of task i returns (or raises) and _process_single_trial
\* returns; the future is set and, once as_completed waits, queued for it.
FinishTask(i) ==
    /\ task[i] = "running"
    /\ resp[i] # "hang"
    /\ task' = [task EXCEPT ![i] = "finished"]
    /\ fut' = [fut EXCEPT ![i] = _process_single_trial(pool_in[i], resp[i])]
    /\ completion_order' = IF Len(pool_in) <= MaxOrdered
                           THEN Append(completion_order, i)
                           ELSE completion_order
    /\ finished_futures' =
          IF ppc = "collecting" THEN Append(finished_futures, i) ELSE finished_futures
    /\ UNCHANGED <<env_vars, component_vars, find_vars, calls, ppc, pool_in, resp, initial_finished,
                   processed_matches, successful_translations, pool_ret>>

\* as_completed(future_to_trial) is entered: the futures finished so far are
\* a set, yielded first in no particular order.
AsCompletedEnter ==
    /\ ppc = "submitted"
    /\ ppc' = "collecting"
    /\ initial_finished' = {i \in Tasks : task[i] = "finished"}
    /\ UNCHANGED <<env_vars, component_vars, find_vars, completion_order, calls, pool_in, task, resp, fut,
                   finished_futures, processed_matches, successful_translations,
                   pool_ret>>

\* as_completed yields one of the futures that were finished on entry.
CollectInitial(i) ==
    /\ ppc = "collecting"
    /\ i \in initial_finished
    /\ initial_finished' = initial_finished \ {i}
    /\ processed_matches' = CollectResult(i).matches
    /\ successful_translations' = CollectResult(i).successful
    /\ task' = [task EXCEPT ![i] = "collected"]
    /\ UNCHANGED <<env_vars, component_vars, find_vars, completion_order, calls, ppc, pool_in, resp, fut,
                   finished_futures, pool_ret>>

\* Variant: the waiter's list is taken from its newest end.
CollectNext_newest_first ==
    /\ ppc = "collecting"
    /\ initial_finished = {}
    /\ finished_futures # <<>>
    /\ finished_futures' = SubSeq(finished_futures, 1, Len(finished_futures) - 1)
    /\ processed_matches' = CollectResult(finished_futures[Len(finished_futures)]).matches
    /\ successful_translations' = CollectResult(finished_futures[Len(finished_futures)]).successful
    /\ task' = [task EXCEPT ![finished_futures[Len(finished_futures)]] = "collected"]
    /\ UNCHANGED <<env_vars, component_vars, find_vars, completion_order, calls, ppc, pool_in, resp, fut,
                   initial_finished, pool_ret>>

\* as_completed yields the next future in order of completion.
CollectNext ==
    /\ ppc = "collecting"
    /\ initial_finished = {}
    /\ finished_futures # <<>>
    /\ finished_futures' = Tail(finished_futures)
    /\ processed_matches' = CollectResult(Head(finished_futures)).matches
    /\ successful_translations' = CollectResult(Head(finished_futures)).successful
    /\ task' = [task EXCEPT ![Head(finished_futures)] = "collected"]
    /\ UNCHANGED <<env_vars, component_vars, find_vars, completion_order, calls, ppc, pool_in, resp, fut,
                   initial_finished, pool_ret>>

\* Every future has been yielded: the loop and the with-block end and
\* (processed_matches, ai_success_rate) is returned.
PoolReturn ==
    /\ ppc = "collecting"
    /\ \A i \in Tasks : task[i] = "collected"
    /\ ppc' = "done"
    /\ pool_ret' = [matches |-> processed_matches,
                    rate |-> ai_success_rate(successful_translations, Len(pool_in))]
    /\ UNCHANGED <<env_vars, component_vars, find_vars, completion_order, calls, pool_in, task, resp, fut,
                   initial_finished, finished_futures, processed_matches,
                   successful_translations>>

PoolNext ==
    \/ SubmitAll
    \/ \E i \in Tasks : StartTask(i)
    \/ \E i \in Tasks : FinishTask(i)
    \/ AsCompletedEnter
    \/ \E i \in Tasks : CollectInitial(i)
    \/ CollectNext
    \/ PoolReturn

(* ------------------------ find_matching_trials ------------------------ *)

\* Variant: _get_cached_results without its "except Exception" handler.
_get_cached_results_unguarded(behaviour) == get_cached_trials(behaviour)

\* _get_cached_results: the entry when the lookup finds one, None on a miss;
\* "except Exception as e: ... return None" when the lookup raises.
_get_cached_results(behaviour) ==
    IF get_cached_trials(behaviour) = Raise THEN None ELSE get_cached_trials(behaviour)

\* cache_service.cache_trials(search_params, trial_data, ttl_hours) as the
\* collaborator answers it: True, or DatabaseError.
cache_trials(behaviour) ==
    IF behaviour = "raise" THEN Raise ELSE [returned |-> TRUE]

\* _cache_results: the write is made inside "try"; "except Exception as e"
\* logs a warning and does not raise, so the method returns None either way.
_cache_results(behaviour) ==
    CASE cache_trials(behaviour) = Raise -> None
      [] OTHER -> None

\* "cached_data = None  # self._get_cached_results(user_profile)"
cached_data == None

\* The "Cache the results" block: "pass  # Caching disabled"; the call
\* counters after it.
CacheTheResults(c) == c

\* What clinical_trials_service.search_trials does, as _search_trials hands
\* it on: the trials, or TrialMatchingError(..., "API_ERROR").
_search_trials(src) ==
    IF src.kind = "error"
    THEN [raised |-> TRUE, exc |-> TrialMatchingError("API_ERROR")]
    ELSE [raised |-> FALSE, trials |-> src.trials]

\* Variant: the handler lets the exception through as it was raised.
find_matching_trials_except_reraise(e) == e

\* "except Exception as e: ... raise TrialMatchingError(f'Failed to find
\* matching trials: {str(e)}')": whatever was raised inside the try block,
\* a TrialMatchingError included, is replaced by one of the default type.
find_matching_trials_except(e) == TrialMatchingError("MATCHING_ERROR")

\* Variant: no early return for an empty search result.
NoTrials_never(trials) == FALSE

\* "if not raw_trials:"
NoTrials(trials) == trials = <<>>

\* The call, up to the cached-data branch.
FindBegin ==
    /\ pc = "call"
    /\ IF cached_data = Raise
       THEN /\ pc' = "raised"
            /\ error' = find_matching_trials_except(Raise)
            /\ UNCHANGED result
       ELSE IF cached_data # None
       THEN /\ pc' = "returned"
            /\ result' = MatchingResult(cached_data.matches, cached_data.total_found,
                                        TRUE, cached_data.ai_translation_success_rate)
            /\ UNCHANGED error
       ELSE /\ pc' = "search"
            /\ UNCHANGED <<result, error>>
    /\ UNCHANGED <<env_vars, component_vars, raw_trials, filtered_trials, calls, pool_vars>>

\* Variant: the raw trials go to _process_trials_with_ai unfiltered.
SearchTrials_unfiltered ==
    /\ pc = "search"
    /\ IF _search_trials(source).raised
       THEN /\ pc' = "raised"
            /\ error' = find_matching_trials_except(_search_trials(source).exc)
            /\ calls' = [calls EXCEPT !.search_trials = @ + 1]
            /\ UNCHANGED <<raw_trials, filtered_trials, result, ppc, pool_in>>
       ELSE IF NoTrials(_search_trials(source).trials)
       THEN /\ pc' = "returned"
            /\ raw_trials' = <<>>
            /\ result' = MatchingResult(<<>>, 0, FALSE, Zero)
            /\ calls' = [calls EXCEPT !.search_trials = @ + 1]
            /\ UNCHANGED <<filtered_trials, error, ppc, pool_in>>
       ELSE /\ pc' = "pool"
            /\ raw_trials' = _search_trials(source).trials
            /\ filtered_trials' = _search_trials(source).trials
            /\ calls' = [calls EXCEPT !.search_trials = @ + 1]
            /\ pool_in' = _search_trials(source).trials
            /\ ppc' = "call"
            /\ UNCHANGED <<result, error>>
    /\ UNCHANGED <<env_vars, component_vars, task, resp, fut, initial_finished, finished_futures,
                   completion_order, processed_matches, successful_translations, pool_ret>>

\* raw_trials = self._search_trials(user_profile), the empty-result return,
\* the filter, and the call of _process_trials_with_ai.
SearchTrials ==
    /\ pc = "search"
    /\ IF _search_trials(source).raised
       THEN /\ pc' = "raised"
            /\ error' = find_matching_trials_except(_search_trials(source).exc)
            /\ calls' = [calls EXCEPT !.search_trials = @ + 1]
            /\ UNCHANGED <<raw_trials, filtered_trials, result, ppc, pool_in>>
       ELSE IF NoTrials(_search_trials(source).trials)
       THEN /\ pc' = "returned"
            /\ raw_trials' = <<>>
            /\ result' = MatchingResult(<<>>, 0, FALSE, Zero)
            /\ calls' = [calls EXCEPT !.search_trials = @ + 1]
            /\ UNCHANGED <<filtered_trials, error, ppc, pool_in>>
       ELSE /\ pc' = "pool"
            /\ raw_trials' = _search_trials(source).trials
            /\ filtered_trials' =
                  _filter_trials(_search_trials(source).trials, user_profile.state)
            /\ calls' = [calls EXCEPT !.search_trials = @ + 1, !.filter_trials = @ + 1]
            /\ pool_in' = _filter_trials(_search_trials(source).trials, user_profile.state)
            /\ ppc' = "call"
            /\ UNCHANGED <<result, error>>
    /\ UNCHANGED <<env_vars, component_vars, task, resp, fut, initial_finished, finished_futures,
                   completion_order, processed_matches, successful_translations, pool_ret>>

\* _process_trials_with_ai has returned: the result is assembled, the
\* cache-write block runs, and the result is returned.
Assemble ==
    /\ pc = "pool"
    /\ ppc = "done"
    /\ pc' = "returned"
    /\ result' = MatchingResult(pool_ret.matches, Len(pool_ret.matches), FALSE,
                                pool_ret.rate)
    /\ calls' = CacheTheResults(calls)
    /\ UNCHANGED <<env_vars, component_vars, raw_trials, filtered_trials, error, pool_vars>>

(* --------------------------- specifications --------------------------- *)

Profiles == { [state |-> "CA"], [state |-> "tx"] }

\* The failures search_trials raises: ClinicalTrialsAPIError after the
\* retries are used up or on an undecodable body, RateLimitError on 429.
SourceErrors ==
    { [kind |-> "error", exc |-> "ClinicalTrialsAPIError", why |-> "retries"],
      [kind |-> "error", exc |-> "RateLimitError", why |-> "429"],
      [kind |-> "error", exc |-> "ClinicalTrialsAPIError", why |-> "json"] }

Sources ==
    SourceErrors \cup
    { [kind |-> "ok", trials |-> ts] : ts \in UNION { TrialLists(n) : n \in 0..MaxFound } }

PoolIdle ==
    /\ task = <<>>
    /\ resp = <<>>
    /\ fut = <<>>
    /\ initial_finished = {}
    /\ finished_futures = <<>>
    /\ completion_order = <<>>
    /\ processed_matches = <<>>
    /\ successful_translations = 0
    /\ pool_ret = None

\* A request arrives at a freshly constructed service.
Init ==
    /\ user_profile \in Profiles
    /\ cache_get \in {"hit", "miss", "raise"}
    /\ cache_put \in {"ok", "raise"}
    /\ source \in Sources
    /\ gemini = [i \in 1..MaxFound |-> PipelineResponses]
    /\ pc = "call"
    /\ raw_trials = <<>>
    /\ filtered_trials = <<>>
    /\ result = None
    /\ error = None
    /\ calls = NoCalls
    /\ ppc = "idle"
    /\ pool_in = <<>>
    /\ PoolIdle
    /\ ComponentsIdle

Next == FindBegin \/ SearchTrials \/ PoolNext \/ Assemble

Spec == Init /\ [][Next]_vars

\* Translation stubs for the pool on its own: every call succeeds, every
\* call is rejected, a repeating mix, one call hangs; for short lists also
\* every combination of responses.
Mix(i) ==
    CASE i % 5 = 1 -> "ok"
      [] i % 5 = 2 -> "missing"
      [] i % 5 = 3 -> "ok_marker"
      [] i % 5 = 4 -> "svc_raise"
      [] OTHER -> "ok_null"

Stubs(n) ==
    { [i \in 1..n |-> {"ok"}],
      [i \in 1..n |-> {"empty"}],
      [i \in 1..n |-> {Mix(i)}],
      [i \in 1..n |-> IF i = 1 THEN {"hang"} ELSE {"ok"}] }
    \cup (IF n <= MaxFound THEN { [i \in 1..n |-> Responses] } ELSE {})

\* _process_trials_with_ai is called with a list of up to MaxTrials trials.
PoolInit ==
    /\ user_profile = [state |-> "CA"]
    /\ cache_get = "miss"
    /\ cache_put = "ok"
    /\ source = [kind |-> "ok", trials |-> <<>>]
    /\ \E n \in 0..MaxTrials :
          /\ pool_in = PoolTrials(n)
          /\ gemini \in Stubs(n)
    /\ pc = "direct"
    /\ raw_trials = <<>>
    /\ filtered_trials = <<>>
    /\ result = None
    /\ error = None
    /\ calls = NoCalls
    /\ ppc = "call"
    /\ PoolIdle
    /\ ComponentsIdle

PoolSpec == PoolInit /\ [][PoolNext]_vars

(* --------------------------- cache addressing ------------------------- *)

\* Largest number of conditions in a profile of KeySpec.
MaxConditions == 2

ConditionTexts == {"Diabetes", " diabetes ", "Asthma"}

ConditionLists ==
    UNION { [1..n -> ConditionTexts] : n \in 1..MaxConditions }

\* LocationData(city, state, country)
Locations ==
    { [city |-> "Boston", state |-> "MA", country |-> "United States"],
      [city |-> " BOSTON ", state |-> "ma", country |-> "UNITED STATES"],
      [city |-> "Austin", state |-> "TX", country |-> "United States"] }

\* The ages _get_age_range is tabulated for: -MaxAge .. MaxAge.
MaxAge == 120

\* Ages in every range of _get_age_range, two of them in the range 18-29.
Ages == {17, 18, 29, 49, 50, 65}

\* UserProfile, reduced to the fields the keys are computed from.
UserProfiles ==
    [age : Ages, conditions : ConditionLists, location : Locations]

\* json.dumps(d, sort_keys=True): the (key, value) pairs in key order; the
\* dictionaries are given here with their keys already in that order.
json_dumps(pairs) == [json |-> pairs]

\* hashlib.md5(text.encode()).hexdigest(): equal texts give equal digests;
\* distinct texts are taken to give distinct digests.
md5(text) == [md5 |-> text]

\* Variant: the exact age is put into the key.
_get_age_range_exact(age) == age

\* Variant: each boundary age is put into the range below it.
_get_age_range_inclusive(age) ==
    IF age <= 18 THEN "under_18"
    ELSE IF age <= 30 THEN "18_29"
    ELSE IF age <= 50 THEN "30_49"
    ELSE IF age <= 65 THEN "50_64"
    ELSE "65_plus"

\* _get_age_range
_get_age_range(age) ==
    IF age < 18 THEN "under_18"
    ELSE IF age < 30 THEN "18_29"
    ELSE IF age < 50 THEN "30_49"
    ELSE IF age < 65 THEN "50_64"
    ELSE "65_plus"

\* generate_search_key
generate_search_key(profile) ==
    md5(json_dumps(
        << <<"age_range", _get_age_range(profile.age)>>,
           <<"conditions",
             sorted([k \in 1..Len(profile.conditions) |->
                        Strip(Lower(profile.conditions[k]))])>>,
           <<"location",
             json_dumps(<< <<"city", Strip(Lower(profile.location.city))>>,
                           <<"country", Strip(Lower(profile.location.country))>>,
                           <<"state", Strip(Lower(profile.location.state))>> >>)>>,
           <<"version", "1.0">> >>))

\* UserProfile.get_search_params
get_search_params(profile) ==
    << <<"age", profile.age>>,
       <<"conditions", profile.conditions>>,
       <<"location",
         json_dumps(<< <<"city", profile.location.city>>,
                       <<"country", profile.location.country>>,
                       <<"state", profile.location.state>> >>)>> >>

\* CacheService._generate_search_key(search_params)
_generate_search_key(search_params) == md5(json_dumps(search_params))

\* "search_key = self.generate_search_key(user_profile)" for the next
\* profile; the key is written to the log.
GenerateSearchKey(profile) ==
    /\ Len(key_profiles) < 2
    /\ Len(key_profiles) = 1 => cache_stored # "none"
    /\ key_profiles' = Append(key_profiles, profile)
    /\ search_keys' = Append(search_keys, generate_search_key(profile))
    /\ UNCHANGED <<outside_key, trials_cache, cache_lookup, cache_stored, cache_raised>>

\* _cache_results(first profile, result): cache_service.cache_trials
\* (search_params = user_profile.get_search_params(), ...) updates or
\* inserts the row whose search_key is _generate_search_key(search_params),
\* or raises DatabaseError and writes no row; _cache_results ends as its
\* handler decides.
CacheResults(behaviour) ==
    /\ Len(key_profiles) = 1
    /\ cache_stored = "none"
    /\ trials_cache' =
          IF cache_trials(behaviour) = Raise
          THEN trials_cache
          ELSE trials_cache \cup {_generate_search_key(get_search_params(key_profiles[1]))}
    /\ cache_raised' =
          IF cache_trials(behaviour) = Raise
          THEN cache_raised \cup {"cache_trials"} ELSE cache_raised
    /\ cache_stored' = IF _cache_results(behaviour) = Raise THEN "raised" ELSE "returned"
    /\ UNCHANGED <<outside_key, key_profiles, search_keys, cache_lookup>>

\* What cache_service.get_cached_trials does for the profile: it selects the
\* row with .eq('search_key', search_key), the entry being fresh, or raises
\* DatabaseError when the client fails.
LookupBehaviour(profile, fails) ==
    IF fails THEN "raise"
    ELSE IF _generate_search_key(get_search_params(profile)) \in trials_cache THEN "hit"
    ELSE "miss"

\* _get_cached_results(second profile): the lookup, and what the method
\* hands back to its caller.
GetCachedResults(fails) ==
    /\ Len(key_profiles) = 2
    /\ cache_lookup = "none"
    /\ cache_raised' =
          IF get_cached_trials(LookupBehaviour(key_profiles[2], fails)) = Raise
          THEN cache_raised \cup {"get_cached_trials"} ELSE cache_raised
    /\ cache_lookup' =
          CASE _get_cached_results(LookupBehaviour(key_profiles[2], fails)) = Raise -> "raised"
            [] _get_cached_results(LookupBehaviour(key_profiles[2], fails)) = None -> "miss"
            [] OTHER -> "hit"
    /\ UNCHANGED <<outside_key, key_profiles, search_keys, trials_cache, cache_stored>>

\* No request is in progress in KeySpec.
PipelineIdle ==
    /\ user_profile = [state |-> "CA"]
    /\ cache_get = "miss"
    /\ cache_put = "ok"
    /\ source = [kind |-> "ok", trials |-> <<>>]
    /\ gemini = <<>>
    /\ pc = "idle"
    /\ raw_trials = <<>>
    /\ filtered_trials = <<>>
    /\ result = None
    /\ error = None
    /\ calls = NoCalls
    /\ ppc = "idle"
    /\ pool_in = <<>>
    /\ PoolIdle

KeyInit == PipelineIdle /\ ComponentsIdle

KeyNext ==
    \/ \E profile \in UserProfiles : GenerateSearchKey(profile)
    \/ CacheResults("ok")
    \/ GetCachedResults(FALSE)

\* Results are cached for one profile and then looked up for another, the
\* cache service answering both calls.
KeySpec == KeyInit /\ [][KeyNext]_vars

\* The profiles the cache helpers are called with when the cache service
\* may fail: two ages, one condition, every location.
FaultProfiles ==
    {profile \in UserProfiles : profile.age \in {17, 29} /\ Len(profile.conditions) = 1}

CacheFaultNext ==
    \/ \E profile \in FaultProfiles : GenerateSearchKey(profile)
    \/ \E behaviour \in {"ok", "raise"} : CacheResults(behaviour)
    \/ \E fails \in BOOLEAN : GetCachedResults(fails)

\* _cache_results and then _get_cached_results against a cache service that
\* answers or raises DatabaseError, on either call.
CacheFaultSpec == KeyInit /\ [][CacheFaultNext]_vars

(* ------------------------ the filter on its own ----------------------- *)

\* Longest raw list of which every make-up is tried in FilterSpec.
MaxRaw == 3

\* TrialMatchingService.__init__: self.max_results = 100, the most trials
\* _search_trials asks the source for.
max_results == 100

\* (status, location states) of the trials handed to the filter.
FilterKinds ==
    { [status |-> "Recruiting",              states |-> <<"ca">>],
      [status |-> "Active, not recruiting",  states |-> <<"NV", "CA">>],
      [status |-> "Suspended",               states |-> <<"AZ">>],
      [status |-> "Not yet recruiting",      states |-> <<"MA">>],
      [status |-> "Enrolling by invitation", states |-> <<>>],
      [status |-> "Unknown status",          states |-> <<"", "TX">>],
      [status |-> "COMPLETED",               states |-> <<"CA">>],
      [status |-> "Withdrawn",               states |-> <<"TX">>],
      [status |-> "Terminated",              states |-> <<"NY">>],
      [status |-> "Suspended",               states |-> <<"nm", "SC">>] }

\* Every list of up to MaxRaw trials, identifiers 1..n.
SmallRawLists ==
    UNION { { [i \in 1..n |-> RawTrialData(i, k[i].status, k[i].states, FALSE, FALSE)] :
                k \in [1..n -> FilterKinds] } : n \in 0..MaxRaw }

\* Repeating make-ups of long lists: a single kind, two and three kinds
\* alternating, local trials last, finished trials in between, trials of
\* all four buckets.
RawPatterns ==
    { << [status |-> "Recruiting", states |-> <<"ca">>] >>,
      << [status |-> "Suspended", states |-> <<"AZ">>] >>,
      << [status |-> "Not yet recruiting", states |-> <<"MA">>] >>,
      << [status |-> "Enrolling by invitation", states |-> <<>>] >>,
      << [status |-> "Unknown status", states |-> <<"", "TX">>] >>,
      << [status |-> "Unknown status", states |-> <<"", "TX">>],
         [status |-> "COMPLETED", states |-> <<"CA">>] >>,
      << [status |-> "Suspended", states |-> <<"nm", "SC">>] >>,
      << [status |-> "Recruiting", states |-> <<"LA", "GA", "PA">>],
         [status |-> "Unknown status", states |-> <<"OK", "AL">>],
         [status |-> "Active, not recruiting", states |-> <<"AR", "NC", "WA">>] >>,
      << [status |-> "Suspended", states |-> <<"AZ">>],
         [status |-> "Not yet recruiting", states |-> <<"MA">>],
         [status |-> "Enrolling by invitation", states |-> <<>>] >>,
      << [status |-> "Enrolling by invitation", states |-> <<>>],
         [status |-> "Not yet recruiting", states |-> <<"MA">>],
         [status |-> "Active, not recruiting", states |-> <<"NV", "CA">>] >>,
      << [status |-> "Unknown status", states |-> <<"", "TX">>],
         [status |-> "Unknown status", states |-> <<"", "TX">>],
         [status |-> "Withdrawn", states |-> <<"TX">>],
         [status |-> "Unknown status", states |-> <<"", "TX">>],
         [status |-> "Unknown status", states |-> <<"", "TX">>],
         [status |-> "Recruiting", states |-> <<"ca">>] >>,
      << [status |-> "Recruiting", states |-> <<"ca">>],
         [status |-> "Suspended", states |-> <<"AZ">>],
         [status |-> "Suspended", states |-> <<"AZ">>],
         [status |-> "Not yet recruiting", states |-> <<"MA">>],
         [status |-> "Not yet recruiting", states |-> <<"MA">>],
         [status |-> "Not yet recruiting", states |-> <<"MA">>],
         [status |-> "Enrolling by invitation", states |-> <<>>],
         [status |-> "Enrolling by invitation", states |-> <<>>] >> }

RawSizes == {9, 10, 11, 24, 25, 41, 66, max_results}

\* The list of n trials whose i-th trial has the kind pattern[i mod length].
PatternedRawList(pattern, n) ==
    [i \in 1..n |->
        RawTrialData(i, pattern[((i - 1) % Len(pattern)) + 1].status,
                     pattern[((i - 1) % Len(pattern)) + 1].states, FALSE, FALSE)]

LargeRawLists ==
    { PatternedRawList(pattern, n) : pattern \in RawPatterns, n \in RawSizes }

\* The twenty states the four clusters name, one of them in lower case,
\* a state of no cluster and a location without a state.
ClusterLocations ==
    {"NY", "NJ", "CT", "PA", "MA", "CA", "NV", "OR", "WA", "AZ",
     "TX", "LA", "OK", "AR", "NM", "FL", "GA", "AL", "sc", "NC", "IL", ""}

\* Every single trial with one location of ClusterLocations, of a
\* recruiting status and of a status that is in no status list.
ClusterRawLists ==
    { << RawTrialData(1, status, <<state>>, FALSE, FALSE) >> :
        status \in {"Recruiting", "Suspended"}, state \in ClusterLocations }

\* user_profile.location.state: the twelve states a cluster is entered
\* with (two in lower case), two states that are only added to a cluster,
\* and the empty state.
FilterStates ==
    {"NY", "NJ", "CT", "CA", "NV", "OR", "tx", "LA", "OK", "FL", "ga", "AL",
     "wa", "PA", ""}

\* The trials the spec's worked example hands to the filter for a user in
\* CA: recruiting in CA, completed in CA, recruiting in TX.
ExampleRawList ==
    << RawTrialData(1, "Recruiting", <<"CA">>, FALSE, FALSE),
       RawTrialData(2, "Completed", <<"CA">>, FALSE, FALSE),
       RawTrialData(3, "Recruiting", <<"TX">>, FALSE, FALSE) >>

\* user_state = user_profile.location.state.upper() if ... else ""
UserState(profile_state) == IF profile_state # "" THEN Upper(profile_state) ELSE ""

\* local_trials, nearby_trials, recruiting_trials, active_trials after the loop
Buckets(trials, state) ==
    [local |-> BucketList(trials, state, "local"),
     nearby |-> BucketList(trials, state, "nearby"),
     recruiting |-> BucketList(trials, state, "recruiting"),
     active |-> BucketList(trials, state, "active")]

\* filtered_trials = self._filter_trials(raw_trials, user_profile)
FilterTrials ==
    /\ ~filter_done
    /\ filter_done' = TRUE
    /\ filter_buckets' = Buckets(filter_raw, UserState(filter_state))
    /\ filter_out' = _filter_trials(filter_raw, filter_state)
    /\ UNCHANGED <<outside_filter, filter_raw, filter_state>>

FilterInit ==
    /\ PipelineIdle
    /\ LaterIdle
    /\ KeyIdle
    /\ TrialIdle
    /\ RequestIdle
    /\ RateIdle
    /\ filter_raw \in SmallRawLists \cup LargeRawLists \cup ClusterRawLists
                      \cup {ExampleRawList}
    /\ filter_state \in FilterStates
    /\ filter_done = FALSE
    /\ filter_buckets = EmptyBuckets
    /\ filter_out = <<>>

FilterNext == FilterTrials

\* _filter_trials is called with a raw list and a user state.
FilterSpec == FilterInit /\ [][FilterNext]_vars

(* --------------------------- get_trial_by_id -------------------------- *)

\* The identifiers of the URL /api/trial/<nct_id>.
TrialIds == {"NCT99999999", "NCT12345678", "12345678", "nct12345678"}

\* nct_id.startswith('NCT')
StartsWithNCT(id) == id \in {"NCT99999999", "NCT12345678"}

\* What _make_request('studies', {'query.id': nct_id, ...}) gives
\* get_trial_by_nct_id: a body with a list of studies (empty, or one study
\* that parses into a trial or does not), a body without the 'studies' key,
\* or an exception.
TrialAnswers ==
    { [kind |-> "studies", studies |-> <<>>],
      [kind |-> "no_studies_key"],
      [kind |-> "studies", studies |-> << [parses |-> FALSE] >>],
      [kind |-> "error", exc |-> "ClinicalTrialsAPIError"],
      [kind |-> "error", exc |-> "RateLimitError"] }
    \cup
    { [kind |-> "studies",
       studies |-> << [parses |-> TRUE,
                       trial |-> RawTrialData(1, st, <<"CA">>, clong, dlong)] >>] :
        st \in {"Recruiting", "Completed"}, clong \in BOOLEAN, dlong \in BOOLEAN }

\* ClinicalTrialsService.get_trial_by_nct_id: the trial, None, or an
\* exception (always a ClinicalTrialsAPIError or a subclass of it).
get_trial_by_nct_id(answer) ==
    CASE answer.kind = "error" -> [raised |-> TRUE, exc |-> answer.exc]
      [] answer.kind = "no_studies_key" -> [raised |-> FALSE, value |-> None]
      [] answer.studies = <<>> -> [raised |-> FALSE, value |-> None]
      [] ~answer.studies[1].parses -> [raised |-> TRUE, exc |-> "ClinicalTrialsAPIError"]
      [] OTHER -> [raised |-> FALSE, value |-> answer.studies[1].trial]

\* Variant: the trial returned by the source is processed unconditionally.
TrialAbsent_never(raw_trial) == FALSE

\* "if not raw_trial:"
TrialAbsent(raw_trial) == raw_trial = None

\* Variant: a finished trial is reported as not found, as the filter of the
\* search path would drop it.
get_trial_by_id_open_only(answer, r) ==
    IF get_trial_by_nct_id(answer).raised
    THEN [raised |-> TRUE, exc |-> TrialMatchingError("MATCHING_ERROR"), translate |-> 0]
    ELSE IF TrialAbsent(get_trial_by_nct_id(answer).value)
    THEN [raised |-> FALSE, value |-> None, translate |-> 0]
    ELSE IF get_trial_by_nct_id(answer).value = None
    THEN [raised |-> TRUE, exc |-> TrialMatchingError("MATCHING_ERROR"), translate |-> 0]
    ELSE IF Excluded(get_trial_by_nct_id(answer).value)
    THEN [raised |-> FALSE, value |-> None, translate |-> 0]
    ELSE [raised |-> FALSE,
          value |-> _process_single_trial(get_trial_by_nct_id(answer).value, r).match,
          translate |-> 1]

\* TrialMatchingService.get_trial_by_id: the returned value (a TrialMatch or
\* None) or the TrialMatchingError raised, and the number of translation
\* calls made.  Processing None raises AttributeError inside the try block.
get_trial_by_id(answer, r) ==
    IF get_trial_by_nct_id(answer).raised
    THEN [raised |-> TRUE, exc |-> TrialMatchingError("MATCHING_ERROR"), translate |-> 0]
    ELSE IF TrialAbsent(get_trial_by_nct_id(answer).value)
    THEN [raised |-> FALSE, value |-> None, translate |-> 0]
    ELSE IF get_trial_by_nct_id(answer).value = None
    THEN [raised |-> TRUE, exc |-> TrialMatchingError("MATCHING_ERROR"), translate |-> 0]
    ELSE [raised |-> FALSE,
          value |-> _process_single_trial(get_trial_by_nct_id(answer).value, r).match,
          translate |-> 1]

\* The route up to the service call: the format check of the identifier.
TrialRequest ==
    /\ trial_pc = "request"
    /\ IF ~StartsWithNCT(trial_id)
       THEN /\ trial_pc' = "done"
            /\ trial_http' = [status |-> 400, error |-> "Invalid NCT ID format"]
       ELSE /\ trial_pc' = "service"
            /\ UNCHANGED trial_http
    /\ UNCHANGED <<outside_trial, trial_id, trial_answer, trial_gemini, trial_result,
                   trial_calls>>

\* service.get_trial_by_id(nct_id) up to the translation call:
\* get_trial_by_nct_id is called and returns or raises; without a trial the
\* call is over, with one translate_with_fallback is entered.
GetTrialById ==
    /\ trial_pc = "service"
    /\ IF get_trial_by_id(trial_answer, trial_gemini).translate = 0
       THEN /\ trial_pc' = "respond"
            /\ trial_result' =
                  [raised |-> get_trial_by_id(trial_answer, trial_gemini).raised,
                   value |-> IF get_trial_by_id(trial_answer, trial_gemini).raised
                             THEN get_trial_by_id(trial_answer, trial_gemini).exc
                             ELSE get_trial_by_id(trial_answer, trial_gemini).value]
       ELSE /\ trial_pc' = "translate"
            /\ UNCHANGED trial_result
    /\ trial_calls' =
          [get_trial_by_nct_id |-> trial_calls.get_trial_by_nct_id + 1,
           translate |-> trial_calls.translate
                           + get_trial_by_id(trial_answer, trial_gemini).translate]
    /\ UNCHANGED <<outside_trial, trial_id, trial_answer, trial_gemini, trial_http>>

\* The translation call is over (a call that hangs never gets here) and
\* get_trial_by_id returns the match or raises.
ProcessSingleTrial ==
    /\ trial_pc = "translate"
    /\ trial_gemini # "hang"
    /\ trial_pc' = "respond"
    /\ trial_result' =
          [raised |-> get_trial_by_id(trial_answer, trial_gemini).raised,
           value |-> IF get_trial_by_id(trial_answer, trial_gemini).raised
                     THEN get_trial_by_id(trial_answer, trial_gemini).exc
                     ELSE get_trial_by_id(trial_answer, trial_gemini).value]
    /\ UNCHANGED <<outside_trial, trial_id, trial_answer, trial_gemini, trial_calls,
                   trial_http>>

\* The route after the service call: 500 for TrialMatchingError, 404 for
\* "not trial", 200 with the trial otherwise.
TrialRespond ==
    /\ trial_pc = "respond"
    /\ trial_pc' = "done"
    /\ trial_http' =
          IF trial_result.raised
          THEN [status |-> 500, error |-> "Failed to fetch trial"]
          ELSE IF trial_result.value = None
          THEN [status |-> 404, error |-> "Trial not found"]
          ELSE [status |-> 200, error |-> ""]
    /\ UNCHANGED <<outside_trial, trial_id, trial_answer, trial_gemini, trial_result,
                   trial_calls>>

TrialInit ==
    /\ PipelineIdle
    /\ LaterIdle
    /\ KeyIdle
    /\ FilterIdle
    /\ RequestIdle
    /\ RateIdle
    /\ trial_id \in TrialIds
    /\ trial_answer \in TrialAnswers
    /\ trial_gemini \in Responses
    /\ trial_pc = "request"
    /\ trial_result = None
    /\ trial_calls = [get_trial_by_nct_id |-> 0, translate |-> 0]
    /\ trial_http = None

TrialNext == TrialRequest \/ GetTrialById \/ ProcessSingleTrial \/ TrialRespond

\* One GET /api/trial/<nct_id> request.
TrialSpec == TrialInit /\ [][TrialNext]_vars

(* ---------------------------- _make_request --------------------------- *)

\* ClinicalTrialsService.__init__: self.max_retries = 3, self.retry_delay = 2
max_retries == 3
retry_delay == 2

\* response.headers.get('Retry-After', 60)
DefaultRetryAfter == 60

\* An optional value that is present.
Some(x) == [some |-> x]

\* 2 ** n
RECURSIVE Pow2(_)
Pow2(n) == IF n = 0 THEN 1 ELSE 2 * Pow2(n - 1)

\* What session.get does on one request: an HTTP response (status code, a
\* body that is JSON, empty or not JSON, a Retry-After header that is absent,
\* a number of seconds or an HTTP date), or one of the exceptions of requests.
HttpResponse(status, body, retry_after) ==
    [kind |-> "response", status_code |-> status, body |-> body,
     retry_after |-> retry_after]

RegistryAnswers ==
    { HttpResponse(200, b, "absent") : b \in {"json", "empty", "not_json"} }
    \cup { HttpResponse(429, "json", h) : h \in {"absent", "30", "7", "http_date"} }
    \cup { HttpResponse(404, b, "absent") : b \in {"json", "empty", "not_json"} }
    \cup { HttpResponse(500, b, "absent") : b \in {"json", "empty", "not_json"} }
    \cup { HttpResponse(503, "not_json", "30"), HttpResponse(400, "json", "absent") }
    \cup { [kind |-> "Timeout"], [kind |-> "ConnectionError"],
           [kind |-> "RequestException"] }

\* ClinicalTrialsAPIError(message, status_code = None, ...) and
\* RateLimitError(retry_after), a subclass of it.
ClinicalTrialsAPIError(message, status_code) ==
    [exception |-> "ClinicalTrialsAPIError", message |-> message,
     status_code |-> status_code, retry_after |-> None]

RateLimitError(retry_after) ==
    [exception |-> "RateLimitError", message |-> "Rate limit exceeded",
     status_code |-> None, retry_after |-> Some(retry_after)]

\* Variant: a body that cannot be decoded is returned as it is.
JsonRaises_never(response) == FALSE

\* response.json() raises ValueError on a body that is not JSON.
JsonRaises(response) == response.body \in {"empty", "not_json"}

\* "response.json() if response.content else None" raises ValueError on a
\* non-empty body that is not JSON.
ResponseDataRaises(response) == response.body = "not_json"

\* int(response.headers.get('Retry-After', 60)); int() raises ValueError on
\* a text that is not a decimal number.
RetryAfterRaises(response) == response.retry_after = "http_date"

RetryAfterSeconds(response) ==
    CASE response.retry_after = "absent" -> DefaultRetryAfter
      [] response.retry_after = "30" -> 30
      [] response.retry_after = "7" -> 7
      [] OTHER -> 0

\* "except ValueError": whatever ValueError is raised inside the try block.
InvalidJson == ClinicalTrialsAPIError("Invalid JSON response", None)

Raises(exc) == [step |-> "raise", exc |-> exc]
Returns(body) == [step |-> "return", body |-> body]
Continues(delay) == [step |-> "continue", sleep |-> delay]

\* The "else" of "if attempt < self.max_retries - 1" for a 5xx response.
ServerErrorExhausted(response) ==
    IF ResponseDataRaises(response) THEN Raises(InvalidJson)
    ELSE Raises(ClinicalTrialsAPIError("Server error", Some(response.status_code)))

\* The branch "elif response.status_code == 429" in iteration n.
RateLimited(response, n) ==
    IF RetryAfterRaises(response) THEN Raises(InvalidJson)
    ELSE IF n < max_retries - 1 THEN Continues(RetryAfterSeconds(response))
    ELSE Raises(RateLimitError(RetryAfterSeconds(response)))

\* One iteration of "for attempt in range(self.max_retries)", after
\* session.get has done what answer says: return, raise, or sleep and continue.
one_attempt(answer, n) ==
    CASE answer.kind = "Timeout" ->
           IF n < max_retries - 1 THEN Continues(retry_delay * Pow2(n))
           ELSE Raises(ClinicalTrialsAPIError("Request timeout after multiple attempts", None))
      [] answer.kind = "ConnectionError" ->
           IF n < max_retries - 1 THEN Continues(retry_delay * Pow2(n))
           ELSE Raises(ClinicalTrialsAPIError("Connection error after multiple attempts", None))
      [] answer.kind = "RequestException" ->
           Raises(ClinicalTrialsAPIError("Request failed", None))
      [] OTHER ->
           IF answer.status_code = 200
           THEN IF JsonRaises(answer) THEN Raises(InvalidJson) ELSE Returns("parsed_body")
           ELSE IF answer.status_code = 429
           THEN RateLimited(answer, n)
           ELSE IF answer.status_code = 404
           THEN IF ResponseDataRaises(answer) THEN Raises(InvalidJson)
                ELSE Raises(ClinicalTrialsAPIError("Endpoint not found", Some(404)))
           ELSE IF answer.status_code >= 500
           THEN IF n < max_retries - 1 THEN Continues(retry_delay * Pow2(n))
                ELSE ServerErrorExhausted(answer)
           ELSE IF ResponseDataRaises(answer) THEN Raises(InvalidJson)
                ELSE Raises(ClinicalTrialsAPIError("API request failed",
                                                   Some(answer.status_code)))

\* ClinicalTrialsService.__init__: self.min_request_interval = 1.0
min_request_interval == 1

\* _handle_rate_limiting: sleep_time, the argument of its time.sleep call;
\* 0 when it does not sleep.
sleep_time(current_time, last) ==
    IF current_time - last < min_request_interval
    THEN min_request_interval - (current_time - last)
    ELSE 0

\* One time.sleep call: the function that made it and its argument.
Sleep(caller, seconds) == [by |-> caller, seconds |-> seconds]

\* The calling thread of _make_request, and the other request thread that
\* uses the same ClinicalTrialsService instance.
Caller == "caller"
OtherThread == "other"

\* What the steps of _make_request leave alone.
beside_request ==
    <<pipeline_vars, key_vars, filter_vars, trial_vars, search_vars, match_vars,
      text_vars, store_vars, guard_vars, rate_pc, requests_left, registry>>

\* _make_request is called: the loop is entered.
MakeRequest ==
    /\ request_pc = "call"
    /\ request_pc' = "loop"
    /\ attempt' = 0
    /\ UNCHANGED <<outside_request, registry, gets, sleeps, outcome>>

\* An iteration opens with _handle_rate_limiting, up to its time.sleep:
\* the time and self.last_request_time are read, and the thread sleeps when
\* the last request is less than min_request_interval old.
HandleRateLimiting ==
    /\ request_pc = "loop"
    /\ attempt < max_retries
    /\ IF sleep_time(clock, last_request_time) > 0
       THEN /\ request_pc' = "rate_sleep"
            /\ sleeps' = Append(sleeps,
                                Sleep("_handle_rate_limiting",
                                      sleep_time(clock, last_request_time)))
            /\ wake_at' = [wake_at EXCEPT
                              ![Caller] = clock + sleep_time(clock, last_request_time)]
       ELSE /\ request_pc' = "stamp"
            /\ UNCHANGED <<sleeps, wake_at>>
    /\ UNCHANGED <<beside_request, clock, last_request_time, sent, attempt, gets, outcome>>

\* A time.sleep call of the calling thread returns: the one of
\* _handle_rate_limiting, or the wait before a retry.
SleepReturns ==
    /\ request_pc \in {"rate_sleep", "retry_sleep"}
    /\ clock >= wake_at[Caller]
    /\ request_pc' = IF request_pc = "rate_sleep" THEN "stamp" ELSE "loop"
    /\ UNCHANGED <<beside_request, clock, last_request_time, sent, wake_at, attempt,
                   gets, sleeps, outcome>>

\* "self.last_request_time = time.time()" and the session.get call: the
\* request goes out and the thread waits for the answer.
SendRequest ==
    /\ request_pc = "stamp"
    /\ request_pc' = "get"
    /\ last_request_time' = clock
    /\ sent' = Append(sent, [thread |-> Caller, at |-> clock])
    /\ gets' = gets + 1
    /\ UNCHANGED <<beside_request, clock, wake_at, attempt, sleeps, outcome>>

\* session.get is over (response or exception) and the rest of the
\* iteration runs: return, raise, or the time.sleep before the retry.
Attempt ==
    /\ request_pc = "get"
    /\ LET o == one_attempt(registry[attempt + 1], attempt)
       IN  CASE o.step = "return" ->
                  /\ request_pc' = "returned"
                  /\ outcome' = o
                  /\ UNCHANGED <<attempt, sleeps, wake_at>>
             [] o.step = "raise" ->
                  /\ request_pc' = "raised"
                  /\ outcome' = o
                  /\ UNCHANGED <<attempt, sleeps, wake_at>>
             [] OTHER ->
                  /\ request_pc' = "retry_sleep"
                  /\ sleeps' = Append(sleeps, Sleep("_make_request", o.sleep))
                  /\ wake_at' = [wake_at EXCEPT ![Caller] = clock + o.sleep]
                  /\ attempt' = attempt + 1
                  /\ UNCHANGED outcome
    /\ UNCHANGED <<beside_request, clock, last_request_time, sent, gets>>

(* ------------------------ _handle_rate_limiting ----------------------- *)

\* Request threads that share the one ClinicalTrialsService instance.
NumThreads == 2

\* Requests each thread makes.
RequestsPerThread == 2

\* Last second of the clock.
MaxTime == 4

Threads == 1..NumThreads

\* current_time = time.time(); time_since_last_request = current_time -
\* self.last_request_time; the thread goes on at once or sleeps for
\* min_request_interval - time_since_last_request.
RateRead(t) ==
    /\ rate_pc[t] = "ready"
    /\ requests_left[t] > 0
    /\ IF clock - last_request_time < min_request_interval
       THEN /\ rate_pc' = [rate_pc EXCEPT ![t] = "sleeping"]
            /\ wake_at' = [wake_at EXCEPT
                             ![t] = clock + (min_request_interval
                                             - (clock - last_request_time))]
       ELSE /\ rate_pc' = [rate_pc EXCEPT ![t] = "stamp"]
            /\ UNCHANGED wake_at
    /\ UNCHANGED <<outside_rate, clock, last_request_time, requests_left, sent>>

\* time.sleep(sleep_time) returns.
RateWake(t) ==
    /\ rate_pc[t] = "sleeping"
    /\ clock >= wake_at[t]
    /\ rate_pc' = [rate_pc EXCEPT ![t] = "stamp"]
    /\ UNCHANGED <<outside_rate, clock, last_request_time, wake_at, requests_left, sent>>

\* self.last_request_time = time.time(), followed at once by session.get.
RateSend(t) ==
    /\ rate_pc[t] = "stamp"
    /\ last_request_time' = clock
    /\ sent' = Append(sent, [thread |-> t, at |-> clock])
    /\ requests_left' = [requests_left EXCEPT ![t] = @ - 1]
    /\ rate_pc' = [rate_pc EXCEPT ![t] = "ready"]
    /\ UNCHANGED <<outside_rate, clock, wake_at>>

\* A second passes.
Tick ==
    /\ clock < MaxTime
    /\ clock' = clock + 1
    /\ UNCHANGED <<outside_rate, last_request_time, rate_pc, wake_at, requests_left, sent>>

\* A fresh service (last_request_time = 0) long after the epoch.
RateInit ==
    /\ PipelineIdle
    /\ LaterIdle
    /\ KeyIdle
    /\ FilterIdle
    /\ TrialIdle
    /\ RequestIdle
    /\ clock = min_request_interval
    /\ last_request_time = 0
    /\ rate_pc = [t \in Threads |-> "ready"]
    /\ wake_at = [t \in Threads |-> 0]
    /\ requests_left \in [Threads -> 1..RequestsPerThread]
    /\ sent = <<>>

RateNext ==
    \/ \E t \in Threads : RateRead(t)
    \/ \E t \in Threads : RateWake(t)
    \/ \E t \in Threads : RateSend(t)
    \/ Tick

\* Request threads calling search_trials / get_trial_by_nct_id on one instance.
RateSpec == RateInit /\ [][RateNext]_vars

\* The threads asleep in time.sleep whose sleep is not over yet.
Asleep ==
    {t \in {Caller, OtherThread} :
        /\ \/ t = Caller /\ request_pc \in {"rate_sleep", "retry_sleep"}
           \/ rate_pc[t] = "sleeping"
        /\ wake_at[t] > clock}

\* Time passes until the next sleep is over.
RequestClock ==
    /\ Asleep # {}
    /\ clock' = CHOOSE w \in {wake_at[t] : t \in Asleep} :
                    \A t \in Asleep : w <= wake_at[t]
    /\ UNCHANGED <<outside_rate, last_request_time, rate_pc, wake_at, requests_left, sent>>

\* The service when _make_request is called: fresh (last_request_time = 0),
\* or used for a request one second ago or within the same second.  The
\* other thread has one request to make through the same instance.
RequestInit ==
    /\ PipelineIdle
    /\ LaterIdle
    /\ KeyIdle
    /\ FilterIdle
    /\ TrialIdle
    /\ clock = 2 * min_request_interval
    /\ last_request_time \in {0, clock - min_request_interval, clock}
    /\ rate_pc = [t \in {Caller, OtherThread} |->
                     IF t = Caller THEN "_make_request" ELSE "ready"]
    /\ wake_at = [t \in {Caller, OtherThread} |-> 0]
    /\ requests_left = [t \in {Caller, OtherThread} |-> IF t = Caller THEN 0 ELSE 1]
    /\ sent = <<>>
    /\ registry \in [1..max_retries -> RegistryAnswers]
    /\ attempt = 0
    /\ request_pc = "call"
    /\ gets = 0
    /\ sleeps = <<>>
    /\ outcome = None

\* The steps of the calling thread.
RequestStep ==
    MakeRequest \/ HandleRateLimiting \/ SleepReturns \/ SendRequest \/ Attempt

RequestNext ==
    \/ RequestStep
    \/ RateRead(OtherThread)
    \/ RateWake(OtherThread)
    \/ RateSend(OtherThread)
    \/ RequestClock

\* One _make_request call against a registry that answers in every way,
\* while another thread makes a request through the same instance.
RequestSpec == RequestInit /\ [][RequestNext]_vars

(* ---------------------------- search_trials --------------------------- *)

\* Largest number of studies in the registry's response.
MaxStudies == 3

\* The eligibility criteria text of a study, by what _is_age_eligible reads
\* from it: whether eligibilityCriteria is null, the (min, max) pairs the age
\* range patterns find in the text, in the order the loops visit them, and
\* the ages the minimum age patterns find.
Criteria(null, ranges, minimums) ==
    [null |-> null, ranges |-> ranges, minimums |-> minimums]

CriteriaKinds ==
    { Criteria(FALSE, <<>>, <<>>),              \* no age wording
      Criteria(FALSE, << <<18, 65>> >>, <<>>),    \* "18-65 years"
      Criteria(FALSE, <<>>, <<65>>),              \* "65 years or older"
      Criteria(TRUE, <<>>, <<>>) }                \* "eligibilityCriteria": null

(* The shape of one element of 'studies':                                  *)
(*   ok             a study _parse_trial_data can parse                    *)
(*   inner_bad      a module inside protocolSection is malformed (for      *)
(*                  example "designModule": null); protocolSection and     *)
(*                  identificationModule are objects                       *)
(*   protocol_null  {"protocolSection": null}                              *)
(*   id_null        {"protocolSection": {"identificationModule": null}}    *)
(*   not_dict       an element that is not a JSON object                   *)
StudyShapes == {"ok", "inner_bad", "protocol_null", "id_null", "not_dict"}

StudyKinds ==
    { [shape |-> "ok", criteria |-> c] : c \in CriteriaKinds }
    \cup { [shape |-> sh, criteria |-> Criteria(FALSE, <<>>, <<>>)] :
             sh \in StudyShapes \ {"ok"} }

\* The studies lists of n elements; the element at position i has nctId i.
StudyLists(n) ==
    { [i \in 1..n |-> [nct_id |-> i, shape |-> k[i].shape, criteria |-> k[i].criteria]] :
        k \in [1..n -> StudyKinds] }

\* What _make_request('studies', params) does: returns a body with a
\* 'studies' list, a body without the key, a body whose 'studies' is null, or
\* raises ClinicalTrialsAPIError / RateLimitError.
SearchResponses ==
    { [kind |-> "studies", studies |-> ss, exc |-> None] :
        ss \in UNION { StudyLists(n) : n \in 0..MaxStudies } }
    \cup { [kind |-> "no_key", studies |-> <<>>, exc |-> None],
           [kind |-> "null_studies", studies |-> <<>>, exc |-> None],
           [kind |-> "raises", studies |-> <<>>,
            exc |-> ClinicalTrialsAPIError("Server error", Some(500))],
           [kind |-> "raises", studies |-> <<>>, exc |-> RateLimitError(DefaultRetryAfter)] }

\* The ages search_trials is called with; 0 stands for the falsy ages (None
\* and 0), for which "if age and ..." skips the age check.
SearchAges == {0, 30, 70}

\* Variant: response_data['studies'], which raises KeyError without the key.
response_studies_subscript(response) ==
    [raises |-> response.kind = "no_key",
     null |-> response.kind = "null_studies",
     list |-> IF response.kind = "studies" THEN response.studies ELSE <<>>]

\* studies = response_data.get('studies', [])
response_studies(response) ==
    [raises |-> FALSE,
     null |-> response.kind = "null_studies",
     list |-> IF response.kind = "studies" THEN response.studies ELSE <<>>]

\* _parse_trial_data raises ClinicalTrialsAPIError("Failed to parse trial
\* data: ...") on every study that is not well-formed.
ParseRaises(study) == study.shape # "ok"

\* _parse_trial_data: the RawTrialData, reduced to nct_id and criteria.
_parse_trial_data(study) ==
    [nct_id |-> study.nct_id, eligibility_criteria |-> study.criteria]

\* The message of logger.warning in the except branch is built with
\* study_data.get('protocolSection', {}).get('identificationModule', {})
\* .get('nctId', 'unknown'), which itself raises AttributeError when the
\* study is not an object or one of the two is null.
WarningRaises(study) == study.shape \in {"protocol_null", "id_null", "not_dict"}

\* trial.eligibility_criteria.lower() raises AttributeError on None.
AgeCheckRaises(criteria) == criteria.null

\* _is_age_eligible: the first pair an age range pattern finds decides; else
\* the first age a minimum age pattern finds; else eligible.
_is_age_eligible(criteria, age) ==
    IF criteria.ranges # <<>>
    THEN criteria.ranges[1][1] <= age /\ age <= criteria.ranges[1][2]
    ELSE IF criteria.minimums # <<>>
         THEN age >= criteria.minimums[1]
         ELSE TRUE

\* One iteration of "for study_data in studies": "append", "skip" (continue)
\* or "abort" (an exception leaves the for loop).
study_step(study, age) ==
    IF ParseRaises(study)
    THEN IF WarningRaises(study) THEN "abort" ELSE "skip"
    ELSE IF age # 0
         THEN IF AgeCheckRaises(study.criteria) THEN "skip"
              ELSE IF _is_age_eligible(study.criteria, age) THEN "append" ELSE "skip"
         ELSE "append"

\* "except Exception as e: raise ClinicalTrialsAPIError(f'Search failed: ...')"
SearchFailed == ClinicalTrialsAPIError("Search failed", None)

\* search_trials up to the for loop: the request, and len(studies).
SearchRequest ==
    /\ search_pc = "call"
    /\ IF search_response.kind = "raises"
       THEN /\ search_pc' = "raised"
            /\ search_exc' = search_response.exc
            /\ UNCHANGED study_index
       ELSE IF \/ response_studies(search_response).raises
               \/ response_studies(search_response).null
            THEN /\ search_pc' = "raised"
                 /\ search_exc' = SearchFailed
                 /\ UNCHANGED study_index
            ELSE /\ search_pc' = "loop"
                 /\ study_index' = 1
                 /\ UNCHANGED search_exc
    /\ UNCHANGED <<outside_search, search_response, search_age, search_out>>

\* One iteration of the for loop.
SearchStudy ==
    /\ search_pc = "loop"
    /\ study_index <= Len(response_studies(search_response).list)
    /\ LET study == response_studies(search_response).list[study_index]
           step == study_step(study, search_age)
       IN  /\ search_out' = IF step = "append"
                            THEN Append(search_out, _parse_trial_data(study))
                            ELSE search_out
           /\ search_pc' = IF step = "abort" THEN "raised" ELSE "loop"
           /\ search_exc' = IF step = "abort" THEN SearchFailed ELSE search_exc
           /\ study_index' = study_index + 1
    /\ UNCHANGED <<outside_search, search_response, search_age>>

\* "return trials" after the last study.
SearchReturn ==
    /\ search_pc = "loop"
    /\ study_index > Len(response_studies(search_response).list)
    /\ search_pc' = "returned"
    /\ UNCHANGED <<outside_search, search_response, search_age, study_index, search_out,
                   search_exc>>

SearchInit ==
    /\ PipelineIdle
    /\ KeyIdle /\ FilterIdle /\ TrialIdle /\ RequestIdle /\ RateIdle
    /\ MatchIdle /\ TextIdle /\ StoreIdle /\ GuardIdle
    /\ search_response \in SearchResponses
    /\ search_age \in SearchAges
    /\ search_pc = "call"
    /\ study_index = 0
    /\ search_out = <<>>
    /\ search_exc = None

SearchNext == SearchRequest \/ SearchStudy \/ SearchReturn

\* One search_trials call against a registry that answers in every way.
SearchSpec == SearchInit /\ [][SearchNext]_vars

(* --------------------------- POST /api/match -------------------------- *)

\* UserProfileSchema: load_default of page and limit.
DefaultPage == 1
DefaultLimit == 20

\* A JSON body of POST /api/match, reduced to the validated fields; page and
\* limit are <<>> when the member is absent and <<n>> when it is n.
MatchBodies ==
    [age : {-5, 0, 1, 30, 119, 120},
     conditions : {<<>>, <<"Diabetes">>},
     city : {"", " ", "Boston"},
     state : {"", "CA"},
     page : {<<>>, <<0>>, <<1>>},
     limit : {<<>>, <<0>>, <<1>>, <<50>>, <<51>>}]

\* The requests: request.is_json, and request.get_json() (None for a missing
\* or empty body).
MatchRequests ==
    { [is_json |-> j, empty |-> FALSE, body |-> b] : j \in BOOLEAN, b \in MatchBodies }
    \cup { [is_json |-> TRUE, empty |-> TRUE, body |-> None] }

\* What find_matching_trials does when the route calls it.
MatchServices == {"ok", "TrialMatchingError", "Exception"}

\* Variant: validate=lambda x: 0 <= x < 120
AgeValid_zero_allowed(x) == 0 <= x /\ x < 120

\* age = fields.Int(required=True, validate=lambda x: 0 < x < 120)
AgeValid(x) == 0 < x /\ x < 120

\* conditions = fields.List(..., validate=lambda x: len(x) > 0)
ConditionsValid(x) == Len(x) > 0

\* city / state = fields.Str(required=True, validate=lambda x: len(x.strip()) > 0)
NotBlank(x) == Strip(x) # ""

\* page = fields.Int(load_default=1, validate=lambda x: x > 0)
PageValid(x) == x > 0

\* limit = fields.Int(load_default=20, validate=lambda x: 1 <= x <= 50)
LimitValid(x) == 1 <= x /\ x <= 50

\* The fields for which schema.load collects an error (e.messages); a
\* validator that returns False fails its field, and a load_default is not
\* validated.
ValidationErrors(body) ==
    { f \in {"age", "conditions", "location.city", "location.state", "page", "limit"} :
        \/ f = "age" /\ ~AgeValid(body.age)
        \/ f = "conditions" /\ ~ConditionsValid(body.conditions)
        \/ f = "location.city" /\ ~NotBlank(body.city)
        \/ f = "location.state" /\ ~NotBlank(body.state)
        \/ f = "page" /\ body.page # <<>> /\ ~PageValid(body.page[1])
        \/ f = "limit" /\ body.limit # <<>> /\ ~LimitValid(body.limit[1]) }

\* validated_data = schema.load(data), when no error is collected.
schema_load(body) ==
    [age |-> body.age, conditions |-> body.conditions, city |-> body.city,
     state |-> body.state,
     page |-> IF body.page = <<>> THEN DefaultPage ELSE body.page[1],
     limit |-> IF body.limit = <<>> THEN DefaultLimit ELSE body.limit[1]]

\* jsonify({'error': error, ...}), status
HttpError(status, message) == [status |-> status, error |-> message]

\* match_trials up to the call of the service: the content type, the body
\* and the schema.
MatchRequest ==
    /\ match_pc = "request"
    /\ IF ~match_request.is_json
       THEN /\ match_http' = HttpError(400, "Content-Type must be application/json")
            /\ match_pc' = "done"
            /\ UNCHANGED match_validated
       ELSE IF match_request.empty
            THEN /\ match_http' = HttpError(400, "Request body is required")
                 /\ match_pc' = "done"
                 /\ UNCHANGED match_validated
            ELSE IF ValidationErrors(match_request.body) # {}
                 THEN /\ match_http' = HttpError(400, "Validation failed")
                      /\ match_pc' = "done"
                      /\ UNCHANGED match_validated
                 ELSE /\ match_validated' = schema_load(match_request.body)
                      /\ match_pc' = "service"
                      /\ UNCHANGED match_http
    /\ UNCHANGED <<outside_match, match_request, match_service, match_calls>>

\* match_trials from service.find_matching_trials(user_profile) to the
\* response.
MatchService ==
    /\ match_pc = "service"
    /\ match_calls' = match_calls + 1
    /\ match_http' =
         CASE match_service = "ok" -> [status |-> 200, error |-> "none"]
           [] match_service = "TrialMatchingError" -> HttpError(500, "Trial matching failed")
           [] OTHER -> HttpError(500, "Internal server error")
    /\ match_pc' = "done"
    /\ UNCHANGED <<outside_match, match_request, match_service, match_validated>>

MatchInit ==
    /\ PipelineIdle
    /\ KeyIdle /\ FilterIdle /\ TrialIdle /\ RequestIdle /\ RateIdle
    /\ SearchIdle /\ TextIdle /\ StoreIdle /\ GuardIdle
    /\ match_request \in MatchRequests
    /\ match_service \in MatchServices
    /\ match_pc = "request"
    /\ match_validated = None
    /\ match_calls = 0
    /\ match_http = None

MatchNext == MatchRequest \/ MatchService

\* One POST /api/match request.
MatchSpec == MatchInit /\ [][MatchNext]_vars

(* ------------------ translate_with_fallback on texts ------------------- *)

\* create_fallback_translation: the description is cut at 200 characters and
\* the criteria at 150.
DescriptionLimit == 200
CriteriaLimit == 150

\* A text is the sequence of its characters; a literal of the program is one
\* element of the sequence.
Repeat(c, n) == [i \in 1..n |-> c]

\* sub in text
Contains(text, sub) ==
    \E i \in 0..(Len(text) - Len(sub)) : SubSeq(text, i + 1, i + Len(sub)) = sub

Titles == { <<"P", "h", "a", "s", "e", " ", "I", "I">>, <<"X">> }

\* Descriptions around the limit, and a short one that names the title "X".
Descriptions ==
    { Repeat("d", n) : n \in {0, 1, DescriptionLimit, DescriptionLimit + 1, 300} }
    \cup { <<"X">> \o Repeat("d", 10) }

Criterias == { Repeat("c", n) : n \in {0, CriteriaLimit, CriteriaLimit + 1, 200} }

required_fields == {"simplifiedDescription", "eligibilitySimplified", "timeCommitment",
                    "keyBenefits"}

\* The value of a JSON member: a text, or null (Python's None), kept apart
\* from every text.
JsonNull == <<"None">>
AiText(field) == <<"ai", field>>

\* A timeCommitment written by the language model that holds the words
\* "Time commitment information not available".
AiTimeUnknown == <<"Time commitment information not available", " in the listing">>

\* The JSON objects the language model answers with: all required members
\* (texts, a null, the marker words, an extra member), each one missing, none.
JsonObjects ==
    { [f \in required_fields |-> AiText(f)],
      [f \in required_fields |->
          IF f = "eligibilitySimplified" THEN JsonNull ELSE AiText(f)],
      [f \in required_fields |->
          IF f = "timeCommitment" THEN AiTimeUnknown ELSE AiText(f)],
      [f \in required_fields \cup {"compensationExplanation"} |-> AiText(f)],
      [f \in {} |-> <<>>] }
    \cup { [f \in required_fields \ {g} |-> AiText(f)] : g \in required_fields }

(* What json.loads is given, once the fences are removed:                  *)
(*   empty      no text                                                    *)
(*   not_json   free text                                                  *)
(*   object     a JSON object with the members 'members'                   *)
(*   list       a JSON list holding the four field names                   *)
(*   string     a JSON string holding the four field names                 *)
(*   number     a JSON number                                              *)
Payloads ==
    { [json |-> "object", members |-> o] : o \in JsonObjects }
    \cup { [json |-> j, members |-> [f \in {} |-> <<>>]] :
             j \in {"empty", "not_json", "list", "string", "number"} }

\* What model.generate_content does: raises, or returns a response whose
\* text is a payload, possibly between markdown code fences ("fence_json":
\* three backquotes and the word json, "fence": three backquotes).
GenerateResponses ==
    { [raises |-> TRUE, fence_open |-> "", fence_close |-> "",
       payload |-> [json |-> "empty", members |-> [f \in {} |-> <<>>]]] }
    \cup { [raises |-> FALSE, fence_open |-> fo, fence_close |-> fc, payload |-> p] :
             fo \in {"", "fence_json", "fence"}, fc \in {"", "fence"}, p \in Payloads }

\* "if not response.text"
TextIsEmpty(response) ==
    response.fence_open = "" /\ response.fence_close = "" /\ response.payload.json = "empty"

\* Variant: the text is handed to json.loads as it is.
json_loads_raises_no_strip(response) ==
    \/ response.fence_open # "" \/ response.fence_close # ""
    \/ response.payload.json \in {"empty", "not_json"}

\* response_text[7:] after an opening json fence, response_text[:-3] before a
\* closing fence, then json.loads(response_text) raises JSONDecodeError
\* unless what is left is JSON; an opening fence without "json" is left in.
json_loads_raises(response) ==
    \/ response.fence_open = "fence"
    \/ response.payload.json \in {"empty", "not_json"}

\* "field in translation_data": a member of an object, an element of a
\* list, a substring of a string; TypeError on a number.
FieldTestRaises(data) == data.json = "number"
FieldIn(field, data) ==
    \/ data.json = "object" /\ field \in DOMAIN data.members
    \/ data.json \in {"list", "string"}

\* translation_data['simplifiedDescription'] raises TypeError unless
\* translation_data is an object.
SubscriptRaises(data) == data.json # "object"

\* TrialTranslation(...), reduced to the four required fields.
TrialTranslation(sd, es, tc, kb) ==
    [simplified_description |-> sd, eligibility_simplified |-> es,
     time_commitment |-> tc, key_benefits |-> kb]

\* translate_trial_info, on the response of the language model.
translate_trial_info_text(response) ==
    IF response.raises THEN None
    ELSE IF TextIsEmpty(response) THEN None
    ELSE IF json_loads_raises(response) THEN None
    ELSE IF FieldTestRaises(response.payload) THEN None
    ELSE IF \E f \in required_fields : ~FieldIn(f, response.payload) THEN None
    ELSE IF SubscriptRaises(response.payload) THEN None
    ELSE TrialTranslation(response.payload.members["simplifiedDescription"],
                          response.payload.members["eligibilitySimplified"],
                          response.payload.members["timeCommitment"],
                          response.payload.members["keyBenefits"])

TimeNotAvailable ==
    <<"Time commitment information not available", ". Please contact the study team for details.">>
BenefitsNotAvailable ==
    <<"Benefits information not available", ". Please contact the study team for details.">>

\* create_fallback_translation, on the texts: "f'...' if len(x) > n else x"
\* applies the condition to the whole f-string.
create_fallback_translation_text(title, criteria, description) ==
    TrialTranslation(
        IF Len(description) > DescriptionLimit
        THEN <<"This study is titled '">> \o title \o <<"'. ">>
             \o Take(description, DescriptionLimit) \o <<"...">>
        ELSE description,
        IF Len(criteria) > CriteriaLimit
        THEN <<"Please review the detailed eligibility criteria", ": ">>
             \o Take(criteria, CriteriaLimit) \o <<"...">>
        ELSE criteria,
        TimeNotAvailable,
        BenefitsNotAvailable)

\* translate_with_fallback: translation = self.translate_trial_info(...)
TranslateTrialInfo ==
    /\ text_pc = "call"
    /\ text_info' = translate_trial_info_text(text_response)
    /\ text_pc' = "translated"
    /\ UNCHANGED <<outside_text, text_title, text_criteria, text_description,
                   text_response, text_out>>

\* translate_with_fallback: the translation, or the fallback when it is None.
TranslateReturn ==
    /\ text_pc = "translated"
    /\ text_out' = IF text_info # None
                   THEN text_info
                   ELSE create_fallback_translation_text(text_title, text_criteria,
                                                         text_description)
    /\ text_pc' = "returned"
    /\ UNCHANGED <<outside_text, text_title, text_criteria, text_description,
                   text_response, text_info>>

TextInit ==
    /\ PipelineIdle
    /\ KeyIdle /\ FilterIdle /\ TrialIdle /\ RequestIdle /\ RateIdle
    /\ SearchIdle /\ MatchIdle /\ StoreIdle /\ GuardIdle
    /\ text_title \in Titles
    /\ text_criteria \in Criterias
    /\ text_description \in Descriptions
    /\ text_response \in GenerateResponses
    /\ text_pc = "call"
    /\ text_info = None
    /\ text_out = None

TextNext == TranslateTrialInfo \/ TranslateReturn

\* One translate_with_fallback call on the texts of one trial.
TextSpec == TextInit /\ [][TextNext]_vars

(* ----------------------------- CacheService --------------------------- *)

\* Last hour of the clock of CacheSpec and CacheRaceSpec.
MaxHours == 3

\* Most rows the table holds in CacheSpec and CacheRaceSpec.
MaxRows == 3

\* Most calls of the service in CacheSpec and CacheRaceSpec.
MaxCalls == 3

\* Config.CACHE_TTL_HOURS
CACHE_TTL_HOURS == 24

\* The search keys (_generate_search_key(search_params)), the trial data and
\* the ttl_hours arguments of the calls; ttl_hours 0 stands for None as well.
CacheKeys == {"k1", "k2"}
CacheData == {"d1", "d2"}
Ttls == {0, 1}

\* The text of column expires_at: expires_at.isoformat() of an hour, or a
\* text datetime.fromisoformat cannot parse.
Timestamp(hour) == [parses |-> TRUE, at |-> hour]
NotATimestamp == [parses |-> FALSE, at |-> 0]

CacheRow(key, data, expires_at) ==
    [search_key |-> key, trial_data |-> data, expires_at |-> expires_at]

\* Variant: an expiry text that cannot be parsed counts as not expired.
_is_expired_unparsed_is_fresh(expires_at, now) ==
    expires_at.parses /\ now > expires_at.at

\* _is_expired: "return current_time > expiry_time", and True when parsing
\* raises.
_is_expired(expires_at, now) ==
    IF expires_at.parses THEN now > expires_at.at ELSE TRUE

\* .select('trial_data, expires_at').eq('search_key', search_key).execute().data
SelectKey(rows, key) == SelectSeq(rows, LAMBDA r : r.search_key = key)

\* _delete_expired_entries: .delete().lt('expires_at', current_time); the
\* rows left.  A text that is no timestamp is not below the current time.
_delete_expired_entries(rows, now) ==
    SelectSeq(rows, LAMBDA r : ~(r.expires_at.parses /\ r.expires_at.at < now))

\* CacheService.get_cached_trials on the rows its select was answered with
\* and the time _is_expired reads afterwards: the value returned (None, or
\* the trial_data of result.data[0]) and whether _delete_expired_entries is
\* called.  No time is read for an empty answer.
CacheService_get_cached_trials(data, now) ==
    IF data = <<>>
    THEN [value |-> None, cleaned |-> FALSE]
    ELSE IF _is_expired(data[1].expires_at, now)
    THEN [value |-> None, cleaned |-> TRUE]
    ELSE [value |-> Some(data[1].trial_data), cleaned |-> FALSE]

\* "ttl_hours = ttl_hours or Config.CACHE_TTL_HOURS" and
\* "expires_at = datetime.now(timezone.utc) + timedelta(hours=ttl_hours)"
ExpiresAt(now, ttl) == Timestamp(now + (IF ttl # 0 THEN ttl ELSE CACHE_TTL_HOURS))

\* Variant: the update rewrites trial_data and leaves expires_at as it was.
UpdateKey_data_only(rows, key, data, expires_at) ==
    [k \in 1..Len(rows) |->
        IF rows[k].search_key = key
        THEN CacheRow(key, data, rows[k].expires_at) ELSE rows[k]]

\* .update({'trial_data': ..., 'expires_at': ...}).eq('search_key', search_key):
\* every row with the key is rewritten.
UpdateKey(rows, key, data, expires_at) ==
    [k \in 1..Len(rows) |->
        IF rows[k].search_key = key THEN CacheRow(key, data, expires_at) ELSE rows[k]]

Callers == DOMAIN cache_call

NoCall == [pc |-> "idle", key |-> "", data |-> "", ttl |-> 0, at |-> 0, seen |-> <<>>]

NotWritten == [set |-> FALSE, data |-> "", ttl |-> 0, at |-> 0]

\* cache_trials up to the update request: the search key, ttl_hours and
\* "expires_at = datetime.now(timezone.utc) + timedelta(hours=ttl_hours)";
\* the clock is read here, and the hour read goes into both requests.
CacheTrials(c, key, data, ttl) ==
    /\ cache_call[c].pc = "idle"
    /\ cache_calls < MaxCalls
    /\ cache_calls' = cache_calls + 1
    /\ cache_call' =
          [cache_call EXCEPT
             ![c] = [pc |-> "update", key |-> key, data |-> data, ttl |-> ttl,
                     at |-> cache_now, seen |-> <<>>]]
    /\ cache_ret' = [cache_ret EXCEPT ![c] = "none"]
    /\ UNCHANGED <<outside_store, cache_rows, cache_now, cache_unique, cache_written,
                   cache_got>>

\* The update request of cache_trials is applied by the table, with the
\* expiry time computed before; "if not update_result.data": True is
\* returned when it changed a row, else the call goes on to the insert.
CacheUpdate(c) ==
    /\ cache_call[c].pc = "update"
    /\ cache_rows' =
          UpdateKey(cache_rows, cache_call[c].key, cache_call[c].data,
                    ExpiresAt(cache_call[c].at, cache_call[c].ttl))
    /\ IF SelectKey(cache_rows, cache_call[c].key) # <<>>
       THEN /\ cache_ret' = [cache_ret EXCEPT ![c] = "True"]
            /\ cache_written' =
                  [cache_written EXCEPT ![cache_call[c].key] =
                      [set |-> TRUE, data |-> cache_call[c].data,
                       ttl |-> cache_call[c].ttl, at |-> cache_call[c].at]]
            /\ cache_call' = [cache_call EXCEPT ![c] = NoCall]
       ELSE /\ cache_call' = [cache_call EXCEPT ![c].pc = "insert"]
            /\ UNCHANGED <<cache_ret, cache_written>>
    /\ UNCHANGED <<outside_store, cache_now, cache_unique, cache_got, cache_calls>>

\* cache_trials from the insert on: the table stores the row and returns it,
\* or returns no row ("if not insert_result.data"), or rejects a second row
\* with the search_key; the last two end in DatabaseError.
CacheInsert(c) ==
    /\ cache_call[c].pc = "insert"
    /\ Len(cache_rows) < MaxRows
    /\ \E stores \in BOOLEAN :
          IF stores /\ ~(cache_unique /\ SelectKey(cache_rows, cache_call[c].key) # <<>>)
          THEN /\ cache_rows' =
                     Append(cache_rows,
                            CacheRow(cache_call[c].key, cache_call[c].data,
                                     ExpiresAt(cache_call[c].at, cache_call[c].ttl)))
               /\ cache_ret' = [cache_ret EXCEPT ![c] = "True"]
               /\ cache_written' =
                     [cache_written EXCEPT ![cache_call[c].key] =
                         [set |-> TRUE, data |-> cache_call[c].data,
                          ttl |-> cache_call[c].ttl, at |-> cache_call[c].at]]
          ELSE /\ cache_ret' = [cache_ret EXCEPT ![c] = "DatabaseError"]
               /\ UNCHANGED <<cache_rows, cache_written>>
    /\ cache_call' = [cache_call EXCEPT ![c] = NoCall]
    /\ UNCHANGED <<outside_store, cache_now, cache_unique, cache_got, cache_calls>>

\* get_cached_trials up to "if not result.data": the select is answered by
\* the table; None is returned for an empty answer, else the call goes on
\* to the expiry test with the rows it was given.
GetCachedTrials(c, key) ==
    /\ cache_call[c].pc = "idle"
    /\ cache_calls < MaxCalls
    /\ cache_calls' = cache_calls + 1
    /\ IF SelectKey(cache_rows, key) = <<>>
       THEN /\ cache_got' =
                  [by |-> c, key |-> key, at |-> cache_now, seen |-> <<>>,
                   value |-> CacheService_get_cached_trials(<<>>, cache_now).value,
                   cleaned |-> CacheService_get_cached_trials(<<>>, cache_now).cleaned]
            /\ UNCHANGED cache_call
       ELSE /\ cache_call' =
                  [cache_call EXCEPT
                     ![c] = [pc |-> "expiry", key |-> key, data |-> "", ttl |-> 0,
                             at |-> 0, seen |-> SelectKey(cache_rows, key)]]
            /\ UNCHANGED cache_got
    /\ UNCHANGED <<outside_store, cache_rows, cache_now, cache_unique, cache_ret,
                   cache_written>>

\* "if self._is_expired(cache_entry['expires_at'])": the clock is read and
\* result.data[0] of the answer is tested; the entry's trial_data is
\* returned, or the call goes on to _delete_expired_entries and will return
\* None.
IsExpired(c) ==
    /\ cache_call[c].pc = "expiry"
    /\ cache_got' =
          [by |-> c, key |-> cache_call[c].key, at |-> cache_now,
           seen |-> cache_call[c].seen,
           value |-> CacheService_get_cached_trials(cache_call[c].seen, cache_now).value,
           cleaned |-> CacheService_get_cached_trials(cache_call[c].seen, cache_now).cleaned]
    /\ cache_call' =
          IF CacheService_get_cached_trials(cache_call[c].seen, cache_now).cleaned
          THEN [cache_call EXCEPT ![c].pc = "cutoff"]
          ELSE [cache_call EXCEPT ![c] = NoCall]
    /\ UNCHANGED <<outside_store, cache_rows, cache_now, cache_unique, cache_ret,
                   cache_written, cache_calls>>

\* _delete_expired_entries up to its request:
\* "current_time = datetime.now(timezone.utc).isoformat()", the clock is read.
DeleteExpiredEntries(c) ==
    /\ cache_call[c].pc = "cutoff"
    /\ cache_call' = [cache_call EXCEPT ![c].pc = "delete", ![c].at = cache_now]
    /\ UNCHANGED <<outside_store, cache_rows, cache_now, cache_unique, cache_ret,
                   cache_written, cache_got, cache_calls>>

\* The delete request of _delete_expired_entries is applied by the table,
\* with the time read before; get_cached_trials returns None.
DeleteExecute(c) ==
    /\ cache_call[c].pc = "delete"
    /\ cache_rows' = _delete_expired_entries(cache_rows, cache_call[c].at)
    /\ cache_call' = [cache_call EXCEPT ![c] = NoCall]
    /\ UNCHANGED <<outside_store, cache_now, cache_unique, cache_ret, cache_written,
                   cache_got, cache_calls>>

\* clear_cache: .delete().neq('id', 0) removes every row; True is returned.
ClearCache(c) ==
    /\ cache_call[c].pc = "idle"
    /\ cache_calls < MaxCalls
    /\ cache_calls' = cache_calls + 1
    /\ cache_rows' = <<>>
    /\ cache_ret' = [cache_ret EXCEPT ![c] = "True"]
    /\ cache_written' = [key \in CacheKeys |-> NotWritten]
    /\ UNCHANGED <<outside_store, cache_now, cache_unique, cache_call, cache_got>>

\* An hour passes.
CacheTick ==
    /\ cache_now < MaxHours
    /\ cache_now' = cache_now + 1
    /\ UNCHANGED <<outside_store, cache_rows, cache_unique, cache_call, cache_ret,
                   cache_written, cache_got, cache_calls>>

\* The table when the service starts: empty, one entry, an entry whose
\* expiry text is no timestamp, entries for both keys.
InitialTables ==
    { <<>>,
      << CacheRow("k1", "d0", Timestamp(1)) >>,
      << CacheRow("k1", "d0", NotATimestamp) >>,
      << CacheRow("k2", "d0", Timestamp(0)), CacheRow("k1", "d0", Timestamp(2)) >> }

StoreInit(callers) ==
    /\ PipelineIdle
    /\ KeyIdle /\ FilterIdle /\ TrialIdle /\ RequestIdle /\ RateIdle
    /\ SearchIdle /\ MatchIdle /\ TextIdle /\ GuardIdle
    /\ cache_rows \in InitialTables
    /\ cache_now = 0
    /\ cache_unique \in BOOLEAN
    /\ cache_call = [c \in 1..callers |-> NoCall]
    /\ cache_ret = [c \in 1..callers |-> "none"]
    /\ cache_written = [key \in CacheKeys |-> NotWritten]
    /\ cache_got = None
    /\ cache_calls = 0

CacheNext ==
    \/ \E c \in Callers, key \in CacheKeys, data \in CacheData, ttl \in Ttls :
          CacheTrials(c, key, data, ttl)
    \/ \E c \in Callers : CacheUpdate(c)
    \/ \E c \in Callers : CacheInsert(c)
    \/ \E c \in Callers, key \in CacheKeys : GetCachedTrials(c, key)
    \/ \E c \in Callers : IsExpired(c)
    \/ \E c \in Callers : DeleteExpiredEntries(c)
    \/ \E c \in Callers : DeleteExecute(c)
    \/ \E c \in Callers : ClearCache(c)
    \/ CacheTick

CacheInit == StoreInit(1)

\* One caller uses the cache service, one call after the other.
CacheSpec == CacheInit /\ [][CacheNext]_vars

CacheRaceInit == StoreInit(NumThreads)

\* NumThreads request threads share the cache service.
CacheRaceSpec == CacheRaceInit /\ [][CacheNext]_vars

(* ---------------- find_matching_trials: the try block ----------------- *)

\* The steps of the try block of find_matching_trials, in program order.
GuardSteps ==
    <<"generate_search_key", "_search_trials", "_filter_trials",
      "_process_trials_with_ai", "MatchingResult">>

\* Exception classes a step can raise (subclasses of Exception), or "none".
Raisable ==
    {"ValueError", "KeyError", "ClinicalTrialsAPIError", "RateLimitError",
     "TrialMatchingError"}

\* An exception of a class, as raised by a step.
Raised(class) == [exception |-> class, error_type |-> "none"]

\* The step fails as guard_faults says: the exception leaves the try block
\* through "except Exception"; otherwise control moves on to step next.
GuardStep(step, exc, next) ==
    /\ guard_pc = step
    /\ IF guard_faults[step] # "none"
       THEN /\ guard_pc' = "raised"
            /\ guard_exc' = find_matching_trials_except(exc)
       ELSE /\ guard_pc' = next
            /\ UNCHANGED guard_exc
    /\ UNCHANGED <<outside_guard, guard_faults, guard_found>>

\* "search_key = self.generate_search_key(user_profile)"
GuardKey ==
    GuardStep("generate_search_key", Raised(guard_faults["generate_search_key"]),
              "_search_trials")

\* "raw_trials = self._search_trials(user_profile)" and "if not raw_trials":
\* a failure of the source arrives as _search_trials re-raises it; an empty
\* list goes straight to the MatchingResult.
GuardSearch ==
    GuardStep("_search_trials",
              _search_trials([kind |-> "error",
                              exc |-> guard_faults["_search_trials"]]).exc,
              IF NoTrials(IF guard_found THEN <<1>> ELSE <<>>)
              THEN "MatchingResult" ELSE "_filter_trials")

\* "filtered_trials = self._filter_trials(raw_trials, user_profile)"
GuardFilter ==
    GuardStep("_filter_trials", Raised(guard_faults["_filter_trials"]),
              "_process_trials_with_ai")

\* "processed_matches, ai_success_rate = self._process_trials_with_ai(...)"
GuardPool ==
    GuardStep("_process_trials_with_ai",
              Raised(guard_faults["_process_trials_with_ai"]), "MatchingResult")

\* "MatchingResult(...)" and "return result"
GuardAssemble ==
    GuardStep("MatchingResult", Raised(guard_faults["MatchingResult"]), "returned")

GuardInit ==
    /\ PipelineIdle
    /\ KeyIdle /\ FilterIdle /\ TrialIdle /\ RequestIdle /\ RateIdle
    /\ SearchIdle /\ MatchIdle /\ TextIdle /\ StoreIdle
    /\ guard_faults \in
          [{GuardSteps[k] : k \in 1..Len(GuardSteps)} -> Raisable \cup {"none"}]
    /\ guard_found \in BOOLEAN
    /\ guard_pc = "generate_search_key"
    /\ guard_exc = None

GuardNext == GuardKey \/ GuardSearch \/ GuardFilter \/ GuardPool \/ GuardAssemble

\* One call of find_matching_trials in which any step may raise.
GuardSpec == GuardInit /\ [][GuardNext]_vars

(* ------------------------------- claims ------------------------------- *)

Finished == pc \in {"returned", "raised"}

SourceReturned == source.kind = "ok"

\* The tasks of the batch whose model call failed.
AllTranslationsFail == \A i \in Tasks : resp[i] \in Failing

\* A match built by the fallback path.
FallbackBuilt(m) ==
    m.time_commitment = "fallback_time" /\ m.key_benefits = "fallback_benefits"

\* s holds exactly one match for each trial of list ts, and nothing else.
OneMatchPerTrial(s, ts) ==
    /\ Len(s) = Len(ts)
    /\ \A i \in 1..Len(ts) :
          Cardinality({k \in 1..Len(s) : s[k].nct_id = ts[i].nct_id}) = 1

\* C1: on a cache hit find_matching_trials returns cached=true built from the
\* cached matches after exactly one cache lookup, with no call to the trial
\* source and no translation call.
C1_CacheHitShortCircuits ==
    (Finished /\ cache_get = "hit") =>
        /\ pc = "returned"
        /\ result.cached
        /\ result.matches = CachedEntry.matches
        /\ calls.get_cached_trials = 1
        /\ calls.search_trials = 0
        /\ calls.translate = 0

\* C2: on a cache miss with at least one trial from the source, the call does
\* exactly one cache lookup and exactly one cache write, and returns
\* cached=false.
C2_MissLooksUpOnceWritesOnce ==
    (pc = "returned" /\ cache_get = "miss" /\ SourceReturned /\ source.trials # <<>>) =>
        /\ calls.get_cached_trials = 1
        /\ calls.cache_trials = 1
        /\ ~result.cached

\* C3: when the trial source fails, find_matching_trials returns no result and
\* raises a TrialMatchingError classified API_ERROR.
C3_SourceFailureIsApiError ==
    (Finished /\ source.kind = "error") =>
        /\ pc = "raised"
        /\ result = None
        /\ error.exception = "TrialMatchingError"
        /\ error.error_type = "API_ERROR"

\* C4: _process_trials_with_ai returns exactly one TrialMatch per submitted
\* trial, carrying its nct_id, whatever the translation outcomes.
C4_OneMatchPerSubmittedTrial ==
    ppc = "done" => OneMatchPerTrial(pool_ret.matches, pool_in)

\* C4 witness: a batch of at least three trials, every translation failing,
\* has returned.
C4_Witness ==
    /\ ppc = "done"
    /\ Len(pool_in) >= 3
    /\ AllTranslationsFail
    /\ Len(pool_ret.matches) = Len(pool_in)

\* C5: with trials from the source, the request never fails; when every
\* translation fails it returns one fallback-built match per filtered trial
\* and a success rate of 0.
C5_TranslationFailuresAbsorbed ==
    (Finished /\ SourceReturned) =>
        /\ pc = "returned"
        /\ (source.trials # <<>> /\ AllTranslationsFail) =>
              /\ OneMatchPerTrial(result.matches, filtered_trials)
              /\ \A k \in 1..Len(result.matches) : FallbackBuilt(result.matches[k])
              /\ result.ai_translation_success_rate.num = 0

\* C5 witness: two filtered trials, one translation rejected on a trial with
\* short criteria and one raising, and the request has returned.
C5_Witness ==
    /\ pc = "returned"
    /\ Len(filtered_trials) = 2
    /\ \E i, j \in Tasks :
          /\ resp[i] = "missing" /\ ~pool_in[i].criteria_long
          /\ resp[j] = "svc_raise"
    /\ Len(result.matches) = 2

\* C6: a batch in which one translation call never returns still terminates:
\* at every moment the batch has returned or some step of it can be taken.
C6_BatchTerminatesDespiteHungCall ==
    ppc = "done" \/ ENABLED PoolNext

\* The counting half of C7 on its own: the returned rate is (trials flagged
\* successful) / N, and 0.0 for an empty list, under every interleaving.
RateMatchesFlags ==
    ppc = "done" =>
        /\ Len(pool_in) = 0 => pool_ret.rate = Zero
        /\ Len(pool_in) > 0 =>
              /\ pool_ret.rate.den = Len(pool_in)
              /\ pool_ret.rate.num = Cardinality({i \in Tasks : fut[i].success})

\* C7: the returned success rate is (trials flagged successful) / N, 0.0 for
\* an empty list, and 1.0 when every call got a well-formed response.
C7_SuccessRateIsExact ==
    /\ RateMatchesFlags
    /\ (ppc = "done" /\ Len(pool_in) > 0 /\ \A i \in Tasks : resp[i] \in WellFormed) =>
          pool_ret.rate.num = pool_ret.rate.den

\* C8: at most max_translation_workers translation calls are in flight.
C8_AtMostWInFlight ==
    Cardinality(Running) <= max_translation_workers

\* C8 witness: max_translation_workers calls in flight while a further
\* submitted trial waits in the queue.
C8_Witness ==
    /\ Cardinality(Running) = max_translation_workers
    /\ \E i \in Tasks : task[i] = "queued"

\* C9: on a cache miss with zero trials from the source the call returns the
\* empty result (cached=false, rate 0.0) without running the filter and
\* without a translation call.
C9_NoTrialsReturnsEmpty ==
    (pc = "returned" /\ cache_get = "miss" /\ SourceReturned /\ source.trials = <<>>) =>
        /\ result = MatchingResult(<<>>, 0, FALSE, Zero)
        /\ calls.filter_trials = 0
        /\ calls.translate = 0

\* C9 witness: the source returned no trials and the call has returned.
C9_Witness ==
    /\ pc = "returned"
    /\ cache_get = "miss"
    /\ SourceReturned
    /\ source.trials = <<>>
    /\ calls.search_trials = 1

CountNormalized(cs, t) == Cardinality({k \in 1..Len(cs) : Strip(Lower(cs[k])) = t})

\* Two condition lists that differ at most in order, letter case and
\* surrounding whitespace.
SameConditions(cs, ds) ==
    /\ Len(cs) = Len(ds)
    /\ \A k \in 1..Len(cs) :
          CountNormalized(cs, Strip(Lower(cs[k]))) = CountNormalized(ds, Strip(Lower(cs[k])))

\* Two locations that differ at most in letter case and surrounding whitespace.
SameLocation(l, m) ==
    /\ Strip(Lower(l.city)) = Strip(Lower(m.city))
    /\ Strip(Lower(l.state)) = Strip(Lower(m.state))
    /\ Strip(Lower(l.country)) = Strip(Lower(m.country))

\* Two ages in the same one of the ranges <18, 18-29, 30-49, 50-64, 65+.
SameAgeBucket(a, b) == \A edge \in {18, 30, 50, 65} : (a < edge) <=> (b < edge)

\* C11: the cache entry is addressed by the key of generate_search_key: a
\* result stored for one profile is a hit for every profile that differs from
\* it only in condition order, letter case / whitespace, or age within the
\* same age bucket.
C11_CacheAddressedByNormalizedKey ==
    (/\ cache_lookup # "none"
     /\ SameConditions(key_profiles[1].conditions, key_profiles[2].conditions)
     /\ SameLocation(key_profiles[1].location, key_profiles[2].location)
     /\ SameAgeBucket(key_profiles[1].age, key_profiles[2].age))
    => cache_lookup = "hit"

\* C15: generate_search_key returns the same key for two profiles that differ
\* only in the order of the conditions or in the letter case / surrounding
\* whitespace of conditions, city, state or country.
C15_KeyIgnoresOrderAndCase ==
    (/\ Len(key_profiles) = 2
     /\ key_profiles[1].age = key_profiles[2].age
     /\ SameConditions(key_profiles[1].conditions, key_profiles[2].conditions)
     /\ SameLocation(key_profiles[1].location, key_profiles[2].location))
    => search_keys[1] = search_keys[2]

\* C15 witness: two profiles whose condition lists are in opposite order and
\* differ in case and whitespace, and whose locations differ in case, have
\* been given the same key.
C15_Witness ==
    /\ Len(key_profiles) = 2
    /\ key_profiles[1].conditions = <<"Diabetes", "Asthma">>
    /\ key_profiles[2].conditions = <<"Asthma", " diabetes ">>
    /\ key_profiles[1].location.city = "Boston"
    /\ key_profiles[2].location.city = " BOSTON "
    /\ key_profiles[1].age = key_profiles[2].age
    /\ search_keys[1] = search_keys[2]

\* C16: generate_search_key is deterministic, and for two profiles identical
\* except for age the keys are equal exactly when the ages fall in the same
\* age bucket.
C16_AgeCountsThroughBucketOnly ==
    (/\ Len(key_profiles) = 2
     /\ key_profiles[1].conditions = key_profiles[2].conditions
     /\ key_profiles[1].location = key_profiles[2].location)
    => (search_keys[1] = search_keys[2]
          <=> SameAgeBucket(key_profiles[1].age, key_profiles[2].age))

\* C16 witness: profiles identical except for the ages 18 and 29 have been
\* given the same key.
C16_Witness ==
    /\ Len(key_profiles) = 2
    /\ key_profiles[1].conditions = key_profiles[2].conditions
    /\ key_profiles[1].location = key_profiles[2].location
    /\ key_profiles[1].age = 18
    /\ key_profiles[2].age = 29
    /\ search_keys[1] = search_keys[2]

\* A trial whose status reads completed, terminated or withdrawn.
FinishedStatus(t) == Lower(t.status) \in {"completed", "terminated", "withdrawn"}

\* A trial with a location in the state the filter was called for.
LocalToUser(t) ==
    \E k \in 1..Len(t.states) :
        t.states[k] # "" /\ Upper(t.states[k]) = Upper(filter_state)

\* The positions of list ts that hold a trial that is not finished.
NonExcluded(ts) == {i \in 1..Len(ts) : ~FinishedStatus(ts[i])}

\* The bucketed result of the call, before backfill.
PreBackfill == Bucketed(filter_raw, Upper(filter_state))

\* C12: the output of _filter_trials holds no trial whose status is
\* (case-insensitively) completed, terminated or withdrawn, backfill included.
C12_NoFinishedTrialInOutput ==
    filter_done => \A k \in 1..Len(filter_out) : ~FinishedStatus(filter_out[k])

\* C12 witness: the input holds finished trials and the backfill step has
\* added trials to the output.
C12_Witness ==
    /\ filter_done
    /\ \E i \in 1..Len(filter_raw) : FinishedStatus(filter_raw[i])
    /\ Len(filter_out) > Len(PreBackfill)
    /\ Len(filter_raw) > BackfillThreshold

\* C13: every non-excluded input trial with a location in the user's state
\* (case-insensitively) is in the output, however many there are, and ahead
\* of every trial without such a location.
C13_AllLocalTrialsFirst ==
    filter_done =>
        /\ \A i \in NonExcluded(filter_raw) :
              LocalToUser(filter_raw[i]) => InSeq(filter_raw[i], filter_out)
        /\ \A a, b \in 1..Len(filter_out) :
              (LocalToUser(filter_out[a]) /\ ~LocalToUser(filter_out[b])) => a < b

\* C13 witness: more local trials than any cap allows are in the output,
\* followed by a trial that is not local.
C13_Witness ==
    /\ filter_done
    /\ Cardinality({k \in 1..Len(filter_out) : LocalToUser(filter_out[k])}) > RecruitingCap
    /\ \E k \in 1..Len(filter_out) : ~LocalToUser(filter_out[k])

\* C14: when the bucketed result has fewer than 10 trials, the output is that
\* result followed by up to 15 further non-excluded input trials not already
\* in it; the output has at least 10 trials whenever the input holds at least
\* 10 non-excluded trials, and every non-excluded input trial when it holds
\* fewer than 10.
C14_BackfillReachesTen ==
    filter_done =>
        /\ Len(PreBackfill) < 10 =>
              /\ Len(filter_out) <= Len(PreBackfill) + 15
              /\ SubSeq(filter_out, 1, Len(PreBackfill)) = PreBackfill
              /\ \A k \in (Len(PreBackfill) + 1)..Len(filter_out) :
                    /\ ~FinishedStatus(filter_out[k])
                    /\ InSeq(filter_out[k], filter_raw)
                    /\ ~InSeq(filter_out[k], PreBackfill)
        /\ Cardinality(NonExcluded(filter_raw)) >= 10 => Len(filter_out) >= 10
        /\ Cardinality(NonExcluded(filter_raw)) < 10 =>
              \A i \in NonExcluded(filter_raw) : InSeq(filter_raw[i], filter_out)

\* C14 witness: a bucketed result of 1 to 9 trials was backfilled with 15
\* trials, more non-excluded trials being left over.
C14_Witness ==
    /\ filter_done
    /\ Len(PreBackfill) \in 1..9
    /\ Len(filter_out) = Len(PreBackfill) + 15
    /\ Cardinality(NonExcluded(filter_raw)) > Len(filter_out)

\* The source adapter reports no trial for the identifier asked for.
SourceReportsNoTrial ==
    \/ trial_answer.kind = "no_studies_key"
    \/ trial_answer.kind = "studies" /\ trial_answer.studies = <<>>

\* C17: get_trial_by_id for an identifier the source reports no trial for
\* returns None, not an error (404 'Trial not found' at the route), and makes
\* no translation call.
C17_AbsentTrialIsNotAnError ==
    (trial_pc \in {"respond", "done"} /\ StartsWithNCT(trial_id) /\ SourceReportsNoTrial) =>
        /\ ~trial_result.raised
        /\ trial_result.value = None
        /\ trial_calls.translate = 0
        /\ trial_pc = "done" =>
              trial_http = [status |-> 404, error |-> "Trial not found"]

\* C17 witness: the registry answered with an empty list of studies, the
\* source was asked once and the route has responded.
C17_Witness ==
    /\ trial_pc = "done"
    /\ trial_answer = [kind |-> "studies", studies |-> <<>>]
    /\ trial_calls.get_trial_by_nct_id = 1
    /\ trial_http.status = 404

\* The registry's answer to the k-th request is a failure that is retried.
Transient(k) ==
    \/ registry[k].kind \in {"Timeout", "ConnectionError"}
    \/ registry[k].kind = "response" /\ registry[k].status_code >= 500

RequestEnded == request_pc \in {"returned", "raised"}

\* The number of requests whose answer the calling thread has handled.
Answered == IF request_pc = "get" THEN gets - 1 ELSE gets

\* The requests the calling thread has sent.
OwnRequests == SelectSeq(sent, LAMBDA q : q.thread = Caller)

\* The arguments of the time.sleep calls _make_request made itself (the
\* waits before a retry), without those of _handle_rate_limiting.
BackoffSleeps ==
    LET own == SelectSeq(sleeps, LAMBDA x : x.by = "_make_request")
    IN  [k \in 1..Len(own) |-> own[k].seconds]

\* The parts of C18 about the number of requests, the delays and the 200
\* response: at most max_retries requests, the call never stuck in the loop,
\* a retried 5xx / timeout / connection error followed by a sleep of 2s (first
\* attempt) or 4s (second), a 200 response ending the call at once.
RetriesBoundedAndSpaced ==
    /\ gets <= 3
    /\ ~RequestEnded => ENABLED (RequestStep \/ RequestClock)
    /\ \A k \in 1..Len(BackoffSleeps) :
          Transient(k) => BackoffSleeps[k] = 2 * Pow2(k - 1)
    /\ \A k \in 1..Answered :
          (registry[k].kind = "response" /\ registry[k].status_code = 200) =>
              /\ RequestEnded
              /\ gets = k
              /\ registry[k].body = "json" => outcome = Returns("parsed_body")

\* C18: a _make_request call ends after at most 3 outbound requests; a 5xx
\* response, a timeout or a connection error is retried after 2s, then 4s;
\* the third consecutive such failure raises ClinicalTrialsAPIError, with the
\* status code when it is a 5xx response; a 200 response ends the call at once
\* with the parsed body.
C18_BoundedRetriesWithBackoff ==
    /\ RetriesBoundedAndSpaced
    /\ (RequestEnded /\ \A k \in 1..3 : Transient(k)) =>
          /\ request_pc = "raised"
          /\ gets = 3
          /\ BackoffSleeps = <<2, 4>>
          /\ outcome.exc.exception = "ClinicalTrialsAPIError"
          /\ registry[3].kind = "response" =>
                outcome.exc.status_code = Some(registry[3].status_code)

\* The value of the Retry-After header of the k-th answer, 60 when absent.
RetryAfterOf(k) ==
    CASE registry[k].retry_after = "30" -> 30
      [] registry[k].retry_after = "7" -> 7
      [] OTHER -> 60

\* C19: a call answered 429 on every attempt ends by raising RateLimitError
\* whose retry_after is the Retry-After value of the response (60 when the
\* header is absent); a call ended by a 429 response raises nothing else.
C19_RateLimitIsDistinct ==
    /\ (RequestEnded /\ \A k \in 1..3 :
            registry[k].kind = "response" /\ registry[k].status_code = 429) =>
          /\ request_pc = "raised"
          /\ outcome.exc.exception = "RateLimitError"
          /\ outcome.exc.retry_after = Some(RetryAfterOf(gets))
    /\ (RequestEnded /\ registry[gets].kind = "response"
           /\ registry[gets].status_code = 429) =>
          outcome.exc.exception = "RateLimitError"

\* The part of C20 that concerns one thread: two requests of the same thread
\* are at least one second apart, whatever the other threads do.
SameThreadSpacing ==
    \A j, k \in 1..Len(sent) :
        (j < k /\ sent[j].thread = sent[k].thread) => sent[k].at - sent[j].at >= 1

\* C20: any two consecutive outbound requests made through one
\* ClinicalTrialsService instance are at least 1 second apart, also when
\* several request threads share the instance.
C20_RequestsOneSecondApart ==
    \A k \in 1..(Len(sent) - 1) : sent[k + 1].at - sent[k].at >= 1

(* ---------------------------- search_trials --------------------------- *)

SearchEnded == search_pc \in {"returned", "raised"}

\* The registry's response holds zero studies.
ZeroStudies ==
    \/ search_response.kind = "no_key"
    \/ search_response.kind = "studies" /\ search_response.studies = <<>>

\* C21 as stated: a response with zero studies makes search_trials raise a
\* not-found condition that is neither the rate-limit error nor the general
\* API error.
C21_EmptyResultRaisesNotFound ==
    (SearchEnded /\ ZeroStudies) =>
        /\ search_pc = "raised"
        /\ search_exc.exception \notin {"ClinicalTrialsAPIError", "RateLimitError"}

\* C21 (amended): a response with zero studies makes search_trials return
\* the empty list normally; nothing is raised for it.
C21_EmptyResultReturnsEmptyList ==
    (SearchEnded /\ ZeroStudies) =>
        /\ search_pc = "returned"
        /\ search_out = <<>>
        /\ search_exc = None

C21_Witness == ZeroStudies /\ search_pc = "returned"

\* The trial search_trials is to return for a study: it parses and, when an
\* age is given, _is_age_eligible returns True for it.
SurvivesSearch(study) ==
    /\ ~ParseRaises(study)
    /\ \/ search_age = 0
       \/ ~AgeCheckRaises(study.criteria) /\ _is_age_eligible(study.criteria, search_age)

ParsedSurvivors ==
    LET kept == SelectSeq(search_response.studies, SurvivesSearch)
    IN  [i \in 1..Len(kept) |-> _parse_trial_data(kept[i])]

\* Whenever search_trials returns, it returns the surviving records in
\* registry order.
ReturnedTrialsAreTheSurvivors ==
    search_pc = "returned" => search_out = ParsedSurvivors

\* C22: for every batch of studies, search_trials returns, and returns
\* exactly the records that parse (and pass the age check when an age is
\* given), in registry order; a record that fails to parse never aborts it.
C22_MalformedRecordsAreSkipped ==
    (SearchEnded /\ search_response.kind = "studies") =>
        /\ search_pc = "returned"
        /\ search_out = ParsedSurvivors

(* --------------------------- POST /api/match -------------------------- *)

\* The ways a profile fails validation: age outside 1..119, empty condition
\* list, blank city or state, page < 1, limit outside 1..50.
FailsProfileValidation(body) ==
    \/ body.age < 1 \/ body.age > 119
    \/ body.conditions = <<>>
    \/ body.city \in {"", " "} \/ body.state \in {"", " "}
    \/ body.page # <<>> /\ body.page[1] < 1
    \/ body.limit # <<>> /\ (body.limit[1] < 1 \/ body.limit[1] > 50)

\* C23: a POST /api/match request whose body fails profile validation is
\* answered with HTTP 400, 'Validation failed' when it is a JSON request, and
\* find_matching_trials is never invoked for it.
C23_InvalidProfileRejectedBeforeCore ==
    (~match_request.empty /\ FailsProfileValidation(match_request.body)) =>
        /\ match_calls = 0
        /\ match_pc # "service"
        /\ match_pc = "done" =>
             /\ match_http.status = 400
             /\ match_request.is_json => match_http.error = "Validation failed"

C23_Witness ==
    /\ match_pc = "done"
    /\ match_request.is_json
    /\ ~match_request.empty
    /\ match_request.body.age = 0
    /\ ValidationErrors(match_request.body) = {"age"}
    /\ match_http = HttpError(400, "Validation failed")

(* ------------------------ filter: the buckets -------------------------- *)

\* C24: for user state CA and the input [recruiting trial in CA, completed
\* trial in CA, recruiting trial in TX], _filter_trials returns exactly the
\* CA recruiting trial followed by the TX recruiting trial.
C24_WorkedExampleGivesTwoTrials ==
    (filter_done /\ filter_raw = ExampleRawList /\ filter_state = "CA") =>
        filter_out = <<ExampleRawList[1], ExampleRawList[3]>>

C24_Witness ==
    /\ filter_done
    /\ filter_raw = ExampleRawList
    /\ filter_state = "CA"
    /\ Len(filter_out) = 2

\* The regional cluster a user's state is paired with: the states of the
\* user list plus the two added ones; empty for every other state.
PairedCluster(user_state) ==
    CASE user_state \in {"NY", "NJ", "CT"} -> {"NY", "NJ", "CT"} \cup {"PA", "MA"}
      [] user_state \in {"CA", "NV", "OR"} -> {"CA", "NV", "OR"} \cup {"WA", "AZ"}
      [] user_state \in {"TX", "LA", "OK"} -> {"TX", "LA", "OK"} \cup {"AR", "NM"}
      [] user_state \in {"FL", "GA", "AL"} -> {"FL", "GA", "AL"} \cup {"SC", "NC"}
      [] OTHER -> {}

\* Some location of the trial lies in the cluster paired with the user's state.
InPairedCluster(t) ==
    \E k \in 1..Len(t.states) : Upper(t.states[k]) \in PairedCluster(Upper(filter_state))

StatusIn(t, statuses) == Lower(t.status) \in statuses

\* The four buckets as the claims describe them, in input order.
ClaimedLocal ==
    SelectSeq(filter_raw, LAMBDA t : ~FinishedStatus(t) /\ LocalToUser(t))

ClaimedNearby ==
    SelectSeq(filter_raw, LAMBDA t :
        ~FinishedStatus(t) /\ ~LocalToUser(t) /\ InPairedCluster(t))

ClaimedRecruiting ==
    SelectSeq(filter_raw, LAMBDA t :
        /\ ~FinishedStatus(t) /\ ~LocalToUser(t) /\ ~InPairedCluster(t)
        /\ StatusIn(t, {"recruiting", "not yet recruiting"}))

ClaimedActive ==
    SelectSeq(filter_raw, LAMBDA t :
        /\ ~FinishedStatus(t) /\ ~LocalToUser(t) /\ ~InPairedCluster(t)
        /\ StatusIn(t, {"active, not recruiting", "enrolling by invitation"}))

ClaimedPreBackfill ==
    ClaimedLocal \o Take(ClaimedNearby, 20) \o Take(ClaimedRecruiting, 30)
    \o Take(ClaimedActive, 15)

\* C25: before backfill the output of _filter_trials is exactly
\* local ++ nearby[:20] ++ recruiting[:30] ++ active[:15], each bucket in
\* input order, a trial with neither a local nor a nearby location being
\* bucketed by its status only; the backfill step only appends to it.
C25_BucketsConcatenatedInPriorityOrder ==
    filter_done =>
        /\ filter_buckets.local = ClaimedLocal
        /\ filter_buckets.recruiting = ClaimedRecruiting
        /\ filter_buckets.active = ClaimedActive
        /\ Len(filter_out) >= Len(ClaimedPreBackfill)
        /\ SubSeq(filter_out, 1, Len(ClaimedPreBackfill)) = ClaimedPreBackfill
        /\ Len(ClaimedPreBackfill) >= 10 => filter_out = ClaimedPreBackfill

\* C25 witness: all four buckets hold trials, the capped ones more than
\* their caps, and no backfill took place.
C25_Witness ==
    /\ filter_done
    /\ filter_buckets.local # <<>>
    /\ Len(filter_buckets.nearby) > NearbyCap
    /\ Len(filter_buckets.recruiting) > RecruitingCap
    /\ Len(filter_buckets.active) > ActiveCap
    /\ filter_out = ClaimedPreBackfill

\* C26: a non-excluded trial with no location in the user's state is in the
\* nearby bucket exactly when some location lies in the cluster paired with
\* the user's state, whatever its status; for a user outside the four
\* clusters the nearby bucket is empty.
C26_NearbyIsThePairedCluster ==
    filter_done =>
        /\ \A i \in NonExcluded(filter_raw) :
              ~LocalToUser(filter_raw[i]) =>
                  (InSeq(filter_raw[i], filter_buckets.nearby)
                     <=> InPairedCluster(filter_raw[i]))
        /\ PairedCluster(Upper(filter_state)) = {} => filter_buckets.nearby = <<>>

\* C26 witness: for a user in LA, a trial whose status is neither a
\* recruiting nor an active one is in the nearby bucket through a state
\* added to the TX/LA/OK cluster.
C26_Witness ==
    /\ filter_done
    /\ filter_state = "LA"
    /\ \E k \in 1..Len(filter_buckets.nearby) :
          /\ ~StatusIn(filter_buckets.nearby[k],
                       {"recruiting", "not yet recruiting", "active, not recruiting",
                        "enrolling by invitation"})
          /\ \A j \in 1..Len(filter_buckets.nearby[k].states) :
                Upper(filter_buckets.nearby[k].states[j]) \in {"AR", "NM"}

(* ------------------ translate_with_fallback on texts ------------------- *)

\* The response is a JSON object that holds all four required fields, bare
\* or between the fences the program removes.
HoldsAllRequiredFields(response) ==
    /\ ~response.raises
    /\ response.fence_open \in {"", "fence_json"}
    /\ response.payload.json = "object"
    /\ required_fields \subseteq DOMAIN response.payload.members

\* The failures of the claim: the call raises, the response is empty, what
\* is left after the fences are removed is not JSON, or a required field is
\* lacking.
TranslationFails(response) ==
    \/ response.raises
    \/ TextIsEmpty(response)
    \/ response.fence_open = "fence" \/ response.payload.json \in {"empty", "not_json"}
    \/ response.payload.json # "object"
    \/ \E f \in required_fields : f \notin DOMAIN response.payload.members

\* C28: translate_trial_info returns None whenever the call raises or the
\* response is empty, not JSON or lacks a required field, and
\* translate_with_fallback then returns the fallback translation; a response
\* with all four required fields is returned as the translation, its field
\* values unchanged.
C28_FailureGivesFallbackSuccessGivesAiText ==
    /\ text_pc \in {"translated", "returned"} =>
          /\ TranslationFails(text_response) => text_info = None
          /\ HoldsAllRequiredFields(text_response) =>
                /\ text_info # None
                /\ text_info.simplified_description =
                       text_response.payload.members["simplifiedDescription"]
                /\ text_info.eligibility_simplified =
                       text_response.payload.members["eligibilitySimplified"]
                /\ text_info.time_commitment =
                       text_response.payload.members["timeCommitment"]
                /\ text_info.key_benefits = text_response.payload.members["keyBenefits"]
    /\ text_pc = "returned" =>
          /\ TranslationFails(text_response) =>
                text_out = create_fallback_translation_text(text_title, text_criteria,
                                                            text_description)
          /\ HoldsAllRequiredFields(text_response) => text_out = text_info

\* C28 witness: a fenced JSON object lacking one required field ended in the
\* fallback translation.
C28_Witness ==
    /\ text_pc = "returned"
    /\ text_response.fence_open = "fence_json"
    /\ text_response.payload.json = "object"
    /\ Cardinality(DOMAIN text_response.payload.members) = 3
    /\ text_info = None
    /\ text_out.time_commitment = TimeNotAvailable

\* The fallback's static texts are in every fallback translation, and the
\* title is in the description whenever the description exceeds the limit.
FallbackStaticTexts ==
    (text_pc = "returned" /\ text_info = None) =>
        /\ text_out.time_commitment = TimeNotAvailable
        /\ text_out.key_benefits = BenefitsNotAvailable
        /\ Len(text_description) > DescriptionLimit =>
              Contains(text_out.simplified_description, text_title)

\* C29: for every title, criteria and description, the fallback translation
\* has a simplified_description that contains the title, and the static
\* 'not available, please contact the study team' texts as time_commitment
\* and key_benefits.
C29_FallbackNamesTheTitle ==
    (text_pc = "returned" /\ text_info = None) =>
        /\ Contains(text_out.simplified_description, text_title)
        /\ text_out.time_commitment = TimeNotAvailable
        /\ text_out.key_benefits = BenefitsNotAvailable

(* ------------------- the success flag and the order -------------------- *)

\* The futures that are set.
Completed == {i \in Tasks : task[i] \in {"finished", "collected"}}

\* Every translation that came from the fallback path is flagged
\* unsuccessful.
FallbackIsFlaggedUnsuccessful ==
    \A i \in Completed : resp[i] \notin WellFormed => ~fut[i].success

\* C27: a trial is flagged as a successful translation if and only if its
\* content came from the AI translation path: every fallback is flagged
\* unsuccessful and every accepted (well-formed) AI response is flagged
\* successful.
C27_FlagTellsAiFromFallback ==
    \A i \in Completed : fut[i].success <=> resp[i] \in WellFormed

\* The trial identifiers of the matches, in list order.
MatchIds == [k \in 1..Len(processed_matches) |-> processed_matches[k].nct_id]

\* The position of task i in the order of completion.
CompletionRank(i) == CHOOSE k \in 1..Len(completion_order) : completion_order[k] = i

\* C30 as stated: the returned matches are in the order in which the
\* translation tasks completed.
C30_MatchesInCompletionOrder ==
    (ppc = "done" /\ Len(pool_in) <= MaxOrdered) =>
        MatchIds = [k \in 1..Len(completion_order) |-> pool_in[completion_order[k]].nct_id]

\* C30 (amended): the matches are in the order in which as_completed yields
\* the futures: the tasks already complete when the collecting loop starts
\* come first (in no particular order among themselves), and the tasks that
\* complete later follow in their order of completion; submission order
\* plays no part.
C30_MatchesInYieldOrder ==
    [][ (Len(pool_in) <= MaxOrdered /\ Len(processed_matches') = Len(processed_matches) + 1) =>
          \E i \in Completed :
             /\ task[i] = "finished" /\ task'[i] = "collected"
             /\ processed_matches'[Len(processed_matches')].nct_id = pool_in[i].nct_id
             /\ initial_finished # {} => i \in initial_finished
             /\ initial_finished = {} =>
                   \A j \in Completed :
                      task[j] = "finished" => CompletionRank(i) <= CompletionRank(j) ]_vars

\* C30 witness: with every future of the entry set already yielded, two
\* later futures wait in an order of completion that is not their order of
\* submission, and the first to complete has just been appended.
C30_Witness ==
    /\ ppc = "collecting"
    /\ Len(pool_in) = MaxOrdered
    /\ initial_finished = {}
    /\ Len(processed_matches) = 2
    /\ task[1] = "finished"
    /\ completion_order = <<3, 2, 1>>
    /\ MatchIds = <<pool_in[3].nct_id, pool_in[2].nct_id>>

\* A translation call has been started in this request.
TranslationStarted ==
    \/ calls.translate > 0
    \/ \E i \in Tasks : task[i] # "queued"

\* C31: within one call the trial source is asked exactly once; it has
\* returned, and the filter has run on what it returned, before the first
\* translation call starts, and it is not asked again while translations run.
C31_SourceOnceBeforeTranslation ==
    /\ calls.search_trials <= 1
    /\ Finished => calls.search_trials = 1
    /\ ppc # "idle" => /\ calls.search_trials = 1
                       /\ calls.filter_trials = 1
    /\ TranslationStarted =>
          /\ pc \in {"pool", "returned"}
          /\ SourceReturned
          /\ raw_trials = source.trials
          /\ calls.search_trials = 1
          /\ calls.filter_trials = 1
          /\ pool_in = _filter_trials(raw_trials, user_profile.state)
          /\ Len(pool_in) = Len(task)

\* C31 witness: a translation call is running on a list the filter has
\* shortened.
C31_Witness ==
    /\ pc = "pool"
    /\ calls.search_trials = 1
    /\ calls.translate = 1
    /\ Len(pool_in) < Len(raw_trials)
    /\ \E i \in Tasks : task[i] = "running"

\* The registry answered the query by id with a record that parses.
RecordReturned ==
    /\ trial_answer.kind = "studies"
    /\ trial_answer.studies # <<>>
    /\ trial_answer.studies[1].parses

\* get_trial_by_id has returned or raised.
ServiceAnswered == trial_pc \in {"respond", "done"} /\ trial_result # None

\* C32: for a record the source returns, get_trial_by_id returns one
\* TrialMatch carrying the record's nct_id and status, finished trials
\* included, after one translation call; it never raises, and when the
\* translation fails the match holds the fallback content.
C32_TrialByIdIsNeverFiltered ==
    (ServiceAnswered /\ RecordReturned) =>
        /\ ~trial_result.raised
        /\ trial_result.value # None
        /\ trial_result.value.nct_id = trial_answer.studies[1].trial.nct_id
        /\ trial_result.value.status = trial_answer.studies[1].trial.status
        /\ trial_calls.get_trial_by_nct_id = 1
        /\ trial_calls.translate = 1
        /\ trial_gemini \in Failing =>
              trial_result.value = _create_fallback_match(trial_answer.studies[1].trial)
        /\ trial_gemini = "ok" =>
              /\ trial_result.value.simplified_description = "ai_description"
              /\ trial_result.value.eligibility_simplified = "ai_eligibility"

\* C32 witness: a completed trial whose translation call raised has been
\* answered with 200 and fallback content.
C32_Witness ==
    /\ trial_pc = "done"
    /\ RecordReturned
    /\ trial_answer.studies[1].trial.status = "Completed"
    /\ trial_gemini = "raise"
    /\ trial_http.status = 200
    /\ trial_result.value.time_commitment = "fallback_time"

\* The answers the claim names: 404, another 4xx that is not 429, or 200
\* with a body that cannot be decoded.
EndsWithoutRetry(answer) ==
    /\ answer.kind = "response"
    /\ \/ answer.status_code \in (400..499) \ {429}
       \/ answer.status_code = 200 /\ answer.body \in {"empty", "not_json"}

\* C33: a 404, another 4xx except 429, or an undecodable 200 makes
\* _make_request raise ClinicalTrialsAPIError at once: the request that got
\* the answer is the last one and no back-off wait follows it, so when it is
\* the first answer exactly one request is made and the only sleep there can
\* be is the one of _handle_rate_limiting before that request.
C33_ClientErrorsAreNotRetried ==
    \A k \in 1..Answered :
        EndsWithoutRetry(registry[k]) =>
            /\ gets = k
            /\ request_pc = "raised"
            /\ outcome.step = "raise"
            /\ outcome.exc.exception = "ClinicalTrialsAPIError"
            /\ Len(BackoffSleeps) = k - 1
            /\ k = 1 =>
                  /\ BackoffSleeps = <<>>
                  /\ Len(OwnRequests) = 1
                  /\ Len(sleeps) <= 1

\* C33 witness: the service had sent a request within the same second; the
\* first answer was 404 and the call has raised after one request, the wait
\* of _handle_rate_limiting and no back-off wait.
C33_Witness ==
    /\ request_pc = "raised"
    /\ gets = 1
    /\ registry[1].kind = "response"
    /\ registry[1].status_code = 404
    /\ sleeps = << Sleep("_handle_rate_limiting", min_request_interval) >>
    /\ BackoffSleeps = <<>>
    /\ outcome.exc.exception = "ClinicalTrialsAPIError"

\* The five ranges as the claim gives them.
ClaimedAgeRange(age) ==
    CASE age < 18 -> "under_18"
      [] age \in 18..29 -> "18_29"
      [] age \in 30..49 -> "30_49"
      [] age \in 50..64 -> "50_64"
      [] age >= 65 -> "65_plus"

\* The age_range entry of the text a search key is the digest of.
KeyAgeRange(key) == key.md5.json[1][2]

\* C34: _get_age_range puts every integer age into the one range of the five
\* that the boundaries 18, 30, 50 and 65 give it: tabulated for every age
\* from -MaxAge to MaxAge when the service is constructed, and compared in
\* every key generated.
C34_AgeRangesHaveTheClaimedBoundaries ==
    /\ key_profiles = <<>> =>
          \A age \in (0 - MaxAge)..MaxAge : _get_age_range(age) = ClaimedAgeRange(age)
    /\ \A k \in 1..Len(key_profiles) :
          KeyAgeRange(search_keys[k]) = ClaimedAgeRange(key_profiles[k].age)

\* C34 witness: keys have been generated for the boundary ages 18 and 65.
C34_Witness ==
    /\ Len(key_profiles) = 2
    /\ key_profiles[1].age = 18
    /\ key_profiles[2].age = 65
    /\ KeyAgeRange(search_keys[1]) = "18_29"
    /\ KeyAgeRange(search_keys[2]) = "65_plus"

\* An entry whose expiry text parses and is not earlier than the time now.
Unexpired(row, now) == row.expires_at.parses /\ row.expires_at.at >= now

\* C35: get_cached_trials never returns the data of an entry that is expired
\* or whose expiry cannot be parsed: for such an entry it returns None and
\* calls the clean-up; it returns the stored trial_data exactly when an
\* unexpired entry exists for the key, and None without clean-up when the key
\* has no entry.
C35_ExpiredEntriesAreNeverServed ==
    cache_got # None =>
        /\ cache_got.value # None =>
              \E k \in 1..Len(cache_got.seen) :
                  /\ Unexpired(cache_got.seen[k], cache_got.at)
                  /\ cache_got.value = Some(cache_got.seen[k].trial_data)
        /\ (\E k \in 1..Len(cache_got.seen) : ~Unexpired(cache_got.seen[k], cache_got.at)) =>
              /\ cache_got.value = None
              /\ cache_got.cleaned
        /\ (\E k \in 1..Len(cache_got.seen) : Unexpired(cache_got.seen[k], cache_got.at))
              <=> cache_got.value # None
        /\ cache_got.seen = <<>> => (cache_got.value = None /\ ~cache_got.cleaned)

\* C35 witness: a lookup found an entry whose expiry text is no timestamp and
\* returned None after the clean-up; the entry is still in the table.
C35_Witness ==
    /\ cache_got # None
    /\ cache_call[cache_got.by].pc = "idle"
    /\ cache_got.seen # <<>>
    /\ ~cache_got.seen[1].expires_at.parses
    /\ cache_got.value = None
    /\ cache_got.cleaned
    /\ SelectKey(cache_rows, cache_got.key) # <<>>

\* The hours the entry of a cache_trials call is claimed to live: ttl_hours,
\* or the configured default when none is given.
ClaimedHours(written) == IF written.ttl # 0 THEN written.ttl ELSE CACHE_TTL_HOURS

\* C36: a lookup made after cache_trials(key, data, ttl) returned True, and
\* before ttl hours have passed since that call, returns exactly data (the
\* data of the latest such call, the cache not having been cleared since); a
\* call that finds an entry rewrites it in place, one that finds none adds
\* one row; a call whose update and insert both store nothing ends in
\* DatabaseError.
C36_WrittenDataIsReadBack ==
    [][ /\ \A key \in CacheKeys :
              ( /\ \E c \in Callers : GetCachedTrials(c, key)
                /\ cache_written[key].set
                /\ cache_now < cache_written[key].at + ClaimedHours(cache_written[key]) )
              => \E c \in Callers : cache_call'[c].pc = "expiry"
        /\ \A c \in Callers :
              ( /\ IsExpired(c)
                /\ cache_written[cache_call[c].key].set
                /\ cache_now < cache_written[cache_call[c].key].at
                                   + ClaimedHours(cache_written[cache_call[c].key]) )
              => cache_got'.value = Some(cache_written[cache_call[c].key].data)
        /\ \A c \in Callers :
              (CacheUpdate(c) /\ cache_ret'[c] = "True")
              => /\ Len(cache_rows') = Len(cache_rows)
                 /\ SelectKey(cache_rows', cache_call[c].key) =
                       << CacheRow(cache_call[c].key, cache_call[c].data,
                                   Timestamp(cache_call[c].at + ClaimedHours(cache_call[c]))) >>
        /\ \A c \in Callers :
              (CacheInsert(c) /\ cache_ret'[c] = "True")
              => /\ Len(cache_rows') = Len(cache_rows) + 1
                 /\ SelectKey(cache_rows', cache_call[c].key) =
                       << CacheRow(cache_call[c].key, cache_call[c].data,
                                   Timestamp(cache_call[c].at + ClaimedHours(cache_call[c]))) >>
        /\ \A c \in Callers :
              (CacheInsert(c) /\ cache_rows' = cache_rows)
              => cache_ret'[c] = "DatabaseError"
      ]_vars

\* C36 witness: an entry that was in the table at the start has been
\* rewritten with ttl 1 and, an hour later, read back.
C36_Witness ==
    /\ cache_got # None
    /\ cache_got.key = "k1"
    /\ cache_written["k1"].set
    /\ cache_written["k1"].ttl = 1
    /\ cache_got.at = cache_written["k1"].at + 1
    /\ cache_got.value = Some(cache_written["k1"].data)
    /\ Len(cache_rows) = 1
    /\ cache_calls = 2

\* C37: the table never holds two entries for one search key, however the
\* cache_trials calls of the callers interleave.
C37_AtMostOneEntryPerKey ==
    \A key \in CacheKeys : Len(SelectKey(cache_rows, key)) <= 1

\* With a table that rejects a second row for a search key the entries stay
\* unique, and the caller whose insert is rejected gets DatabaseError.
UniqueKeyKeepsOneEntry ==
    cache_unique => \A key \in CacheKeys : Len(SelectKey(cache_rows, key)) <= 1

\* The steps of the try block that ran before control reached its present
\* place (all of them once the call has returned).
GuardStepsRun ==
    { GuardSteps[k] : k \in 1..Len(GuardSteps) } \
    (IF guard_found THEN {} ELSE {"_filter_trials", "_process_trials_with_ai"})

\* C38: find_matching_trials ends by returning a MatchingResult or by
\* raising TrialMatchingError; whichever step raises, and whatever it
\* raises, no exception of another class leaves the call, and the call
\* returns only when no step that ran has raised.
C38_OnlyTrialMatchingErrorEscapes ==
    /\ guard_pc = "raised" => guard_exc.exception = "TrialMatchingError"
    /\ guard_pc = "returned" =>
          /\ guard_exc = None
          /\ \A step \in GuardStepsRun : guard_faults[step] = "none"
    /\ guard_pc # "raised" => guard_exc = None

\* C38 witness: the translation pool raised KeyError after the search and
\* the filter went through, and the call ended in an exception.
C38_Witness ==
    /\ guard_pc = "raised"
    /\ guard_found
    /\ guard_faults["generate_search_key"] = "none"
    /\ guard_faults["_search_trials"] = "none"
    /\ guard_faults["_filter_trials"] = "none"
    /\ guard_faults["_process_trials_with_ai"] = "KeyError"

\* How often trial t occurs in list s.
Occurrences(t, s) == Cardinality({k \in 1..Len(s) : s[k] = t})

\* The bucket lists that hold trial t.
BucketsHolding(t) ==
    {b \in {"local", "nearby", "recruiting", "active"} : InSeq(t, filter_buckets[b])}

\* C39: the output of _filter_trials is a selection of its input in which no
\* input trial appears more often than in the input (at most once for input
\* trials that are pairwise different): no trial is in two bucket lists, a
\* trial with a local and a nearby location is in the local list only, and
\* the backfill adds no trial that is already in the output.
C39_EachTrialAtMostOnce ==
    filter_done =>
        /\ \A k \in 1..Len(filter_out) :
              /\ InSeq(filter_out[k], filter_raw)
              /\ Occurrences(filter_out[k], filter_out)
                    <= Occurrences(filter_out[k], filter_raw)
        /\ \A i \in 1..Len(filter_raw) :
              /\ Cardinality(BucketsHolding(filter_raw[i])) <= 1
              /\ (LocalToUser(filter_raw[i]) /\ ~FinishedStatus(filter_raw[i]))
                    => BucketsHolding(filter_raw[i]) = {"local"}
        /\ \A k \in (Len(PreBackfill) + 1)..Len(filter_out) :
              ~InSeq(filter_out[k], PreBackfill)

\* C39 witness: a trial with a nearby location listed before its local one
\* is in the output once, as a local trial, and the backfill has added a
\* trial behind it.
C39_Witness ==
    /\ filter_done
    /\ \E k \in 1..Len(filter_out) :
          /\ has_local_location(filter_out[k], UserState(filter_state))
          /\ has_nearby_location(filter_out[k], UserState(filter_state))
          /\ BucketsHolding(filter_out[k]) = {"local"}
          /\ Occurrences(filter_out[k], filter_out) = 1
    /\ PreBackfill # <<>>
    /\ Len(filter_out) > Len(PreBackfill)

\* The trials of list s without a location in the user's state.
NotLocal(s) == {k \in 1..Len(s) : ~LocalToUser(s[k])}

\* C40: the output of _filter_trials holds at most 65 trials without a
\* location in the user's state (20 nearby + 30 recruiting + 15 active,
\* backfill included), so it holds at most the number of local input trials
\* plus 65 trials, which is the number of translation calls of the request.
C40_AtMostSixtyFiveNotLocal ==
    filter_done =>
        /\ Cardinality(NotLocal(filter_out)) <= 65
        /\ Cardinality(NotLocal(filter_out)) <= NearbyCap + RecruitingCap + ActiveCap
        /\ Len(filter_out) <=
              Cardinality({i \in NonExcluded(filter_raw) : LocalToUser(filter_raw[i])}) + 65

\* C40 witness: an input with more nearby, recruiting and active trials than
\* the three caps allow gives an output with exactly 65 trials, none local.
C40_Witness ==
    /\ filter_done
    /\ Len(filter_buckets.nearby) > NearbyCap
    /\ Len(filter_buckets.recruiting) > RecruitingCap
    /\ Len(filter_buckets.active) > ActiveCap
    /\ Cardinality(NotLocal(filter_out)) = 65
    /\ Len(filter_out) = 65

====
